---- MODULE Spec2Model ----
(***************************************************************************)
(* Text model resolution: the reference-counted model collection           *)
(* (ResourceModelCollection), its per-scheme content providers, and the    *)
(* facade TextModelResolverService: createModelReference with its three     *)
(* ways (untitled, inmemory, collection), the saver map, save, supportsSave *)
(* and the state events fired on saves and on content changes.              *)
(*                                                                         *)
(* Promises are modelled by their state (pending / resolved / rejected).   *)
(* A continuation of the construction chain itself (first -> then ->       *)
(* createInstance) runs in the step that settles the provider's promise;   *)
(* the continuation a caller of createModelReference attached runs as a    *)
(* step of its own once the promise is settled.                            *)
(***************************************************************************)
EXTENDS Integers, Sequences, FiniteSets, TLC

\* ------------------------------------------------------------------ bounds

\* createModelReference / acquire calls made in one behaviour
MaxCalls == 3
\* registerTextModelContentProvider calls made in one behaviour
MaxProviders == 2
\* dispose calls made on handles that were disposed before, in one behaviour
MaxRedispose == 1
\* registerTextModelSaver calls made in one behaviour
MaxSavers == 2
\* save calls made in one behaviour
MaxSaves == 2
\* content changes made to models in one behaviour
MaxChanges == 2

\* state events delivered to a resource editor input
MaxInputEvents == 3

\* calls of ResourceEditorInput.resolve
MaxResolves == 4

\* startMonitoring and stopMonitoring calls made on one monitor
MaxMonitorCalls == 4

\* windows in the same-origin chain
MaxWindows == 2

\* ------------------------------------------------------------- URIs, keys

SchemaFile == "file"
UNTITLED_SCHEMA == "untitled"
SchemaInMemory == "inmemory"
SchemaDemo == "demo"

FileUri == [scheme |-> SchemaFile, path |-> "a"]
DemoUri == [scheme |-> SchemaDemo, path |-> "x"]
UntitledUri == [scheme |-> UNTITLED_SCHEMA, path |-> "u"]
InMemoryUri == [scheme |-> SchemaInMemory, path |-> "m"]

Uris == {FileUri, DemoUri, UntitledUri, InMemoryUri}

\* the URIs createModelReference hands to the collection
CollectionUris == {u \in Uris : u.scheme \notin {UNTITLED_SCHEMA, SchemaInMemory}}

\* schemes a content provider is registered for in this model
ProviderSchemes == {SchemaFile, SchemaDemo}

\* resource.toString(): scheme, separator, path
toString(resource) == <<resource.scheme, ":", resource.path>>

\* URI.parse(key)
parse(key) == [scheme |-> key[1], path |-> key[3]]

AllKeys == {toString(u) : u \in Uris}
Keys == {toString(u) : u \in CollectionUris}

\* ----------------------------------------------------------------- errors

NoError == "none"
ErrNotAvailable == "resource is not available"
ErrInMemory == "Cant resolve inmemory resource"
ErrProvider == "provider failed"
ErrLoad == "loadOrCreate failed"
MISSING_MODEL == "MISSING_MODEL"
MISSING_SAVER == "MISSING_SAVER"
ErrSaver == "saver failed"

\* what one provideTextContent call ends with
Outcomes == {"content", "empty", "error"}

\* ------------------------------------------------------------------ state

VARIABLES
    references,         \* ReferenceCollection.references: key -> index into entries[key]
    entries,            \* per key, every {counter, object} entry created for it, in order
    providers,          \* ResourceModelCollection.providers: scheme -> provider list
    registrations,      \* scheme of the i-th registerTextModelContentProvider call
    slots,              \* per key, the callers: one per createModelReference / acquire call
    redisposed,         \* dispose calls made so far on handles disposed before
    modelServiceModels, \* URIs the model service has a model for
    modelListener,      \* ModelChangeEventEmitter._modelListener: models listened to
    modelSaver,         \* TextModelResolverService._modelSaver: scheme -> saver
    saverRegistrations, \* the registerTextModelSaver calls made: scheme, and whether it threw
    saves,              \* the save calls made, each with its outcome so far
    stateEvents,        \* what _onDidChangeState fired, in order
    contentChanges,     \* the models whose content was changed, in order
    supported,          \* what the latest supportsSave call returned, and the number
                        \* of registerTextModelSaver calls made before it
    attached,           \* per model, the emitter's subscriptions attached to it
    emitterDisposed,    \* ModelChangeEventEmitter.dispose has run
    disposal,           \* the content changes and state events there were when it ran
    currentHotExitConfig, \* FilesConfigurationService.currentHotExitConfig
    environment,        \* platform, workspace, window count, answer of the confirm dialog
    textFiles,          \* per resource, the text file or untitled model: loaded, dirty, value
    shutdown,           \* how the will-shutdown event was handled, once it was fired
    inputDirty,         \* ResourceEditorInput.dirty
    received,           \* the state events the input's listener got, and what it did
    modelReference,     \* ResourceEditorInput.modelReference: 0 (null) or the promise held
    acquired,           \* the createModelReference calls the input made, in order
    inputDisposed,      \* ResourceEditorInput.dispose has run
    mouseMoveEventMerger, \* GlobalMouseMoveMonitor: 0 (null) or the start that set it
    mouseMoveCallback,
    onStopCallback,
    hooks,              \* GlobalMouseMoveMonitor.hooks: the listeners hooked
    hooksDisposed,      \* hooks.dispose() has run
    starts,             \* the startMonitoring calls made, in order
    stops,              \* the stopMonitoring calls made, in order
    stopCallbacks       \* the stop callbacks invoked, in order

\* the model collection and its callers
collectionVars == <<references, entries, providers, registrations, slots, redisposed>>

\* the savers, the save calls and the state events
saverVars == <<modelSaver, saverRegistrations, saves, stateEvents, contentChanges, supported>>

\* the emitter's live subscriptions per model, and its disposal
emitterVars == <<attached, emitterDisposed, disposal>>

\* the model resolution service with its collection, savers and emitter
resolverVars == <<collectionVars, modelServiceModels, modelListener, saverVars, emitterVars>>

\* the text file service, its configuration and its environment
fileVars == <<currentHotExitConfig, environment, textFiles, shutdown>>

\* a ResourceEditorInput: its dirty state and its model reference
inputVars == <<inputDirty, received, modelReference, acquired, inputDisposed>>

\* a GlobalMouseMoveMonitor
monitorVars == <<mouseMoveEventMerger, mouseMoveCallback, onStopCallback, hooks,
                 hooksDisposed, starts, stops, stopCallbacks>>

\* what the model resolution service does not touch
otherVars == <<fileVars, inputVars, monitorVars>>

vars == <<resolverVars, otherVars>>

\* ----------------------------------------------------- sequences, helpers

RECURSIVE RemoveAt(_, _)
RemoveAt(s, i) ==
    IF s = <<>> THEN <<>>
    ELSE IF i = 1 THEN Tail(s)
    ELSE <<Head(s)>> \o RemoveAt(Tail(s), i - 1)

\* Array.prototype.indexOf, 1-based; 0 when absent
RECURSIVE indexOfFrom(_, _, _)
indexOfFrom(s, x, i) ==
    IF i > Len(s) THEN 0
    ELSE IF s[i] = x THEN i
    ELSE indexOfFrom(s, x, i + 1)

indexOf(s, x) == indexOfFrom(s, x, 1)

\* this.providers[scheme] || []
providersOf(registry, scheme) ==
    IF scheme \in DOMAIN registry THEN registry[scheme] ELSE <<>>

RECURSIVE SumLen(_, _)
SumLen(f, ks) ==
    IF ks = {} THEN 0
    ELSE LET k == CHOOSE x \in ks : TRUE IN Len(f[k]) + SumLen(f, ks \ {k})

\* calls made so far
Calls == SumLen(slots, AllKeys)

\* --------------------------------------------- ResourceModelCollection

\* A pending promise of a model, with the construction that feeds it.
\*   origin    which routine builds the model
\*   snapshot  the factories array: the providers at the time of the call
\*   queue     factories `first` has not popped yet
\*   inflight  providers whose provideTextContent has not returned yet
\*   invoked   providers invoked so far, in order
\*   returned  <<provider, outcome>> of every call that returned, in order
\*   result    what first(factories) ended with, "pending" until then
\*   destroyed how often destroyReferencedObject was applied to the promise
\*   early     destroyReferencedObject was applied while the promise was pending
\*   awaiting  done() callbacks registered and not yet run
\*   viaManager, viaDirect  disposals of the model by models.disposeModel / dispose
NewEntry(key, origin, list) ==
    [ key         |-> key,
      counter     |-> 0,
      origin      |-> origin,
      st          |-> "pending",
      err         |-> NoError,
      model       |-> "none",
      result      |-> "pending",
      snapshot    |-> list,
      queue       |-> list,
      inflight    |-> {},
      invoked     |-> <<>>,
      returned    |-> <<>>,
      destroyed   |-> 0,
      early       |-> FALSE,
      awaiting    |-> 0,
      viaManager  |-> 0,
      viaDirect   |-> 0 ]

\* the callback destroyReferencedObject hands to modelPromise.done
\* the callback without the instanceof test: every model is disposed directly
disposeResolved_alwaysDirect(e) == [e EXCEPT !.viaDirect = @ + 1]

disposeResolved(e) ==
    IF e.model = "TextFileEditorModel"
    THEN [e EXCEPT !.viaManager = @ + 1]
    ELSE [e EXCEPT !.viaDirect = @ + 1]

RECURSIVE runAwaiting(_)
runAwaiting(e) ==
    IF e.awaiting = 0 THEN e
    ELSE runAwaiting(disposeResolved([e EXCEPT !.awaiting = @ - 1]))

\* the promise completes with a model: the callbacks done() registered meanwhile run
complete(e, model) ==
    IF e.st # "pending" THEN e
    ELSE runAwaiting([e EXCEPT !.st = "resolved", !.model = model])

\* the promise fails: done() callbacks without an error handler dispose nothing
fail(e, err) ==
    IF e.st # "pending" THEN e
    ELSE [e EXCEPT !.st = "rejected", !.err = err]

\* async.first, one loop() turn: with no factory left the result is null,
\* otherwise the next factory is popped and called
firstLoop(e) ==
    IF e.queue = <<>>
    THEN [e EXCEPT !.result = "null"]
    ELSE [e EXCEPT !.queue = Tail(@),
                   !.inflight = @ \cup {Head(e.queue)},
                   !.invoked = Append(@, Head(e.queue))]

\* async.first, the then() on a factory's promise: stop at the first truthy
\* result, loop on an empty one, fail with the factory's error
firstReturned(e, pr, outcome) ==
    LET r == [e EXCEPT !.inflight = @ \ {pr},
                       !.returned = Append(@, <<pr, outcome>>)]
    IN  IF r.result # "pending" THEN r
        ELSE IF outcome = "content" THEN [r EXCEPT !.result = "model"]
        ELSE IF outcome = "error" THEN [r EXCEPT !.result = "error"]
        ELSE firstLoop(r)

\* then() callbacks without the test for a null result
contentResolved_noNullTest(e) ==
    IF e.result = "error" THEN fail(e, ErrProvider)
    ELSE IF e.result \in {"null", "model"} THEN complete(e, "ResourceEditorModel")
    ELSE e

\* the then() callbacks on first(factories): a null result is the
\* 'resource is not available' error, a model is wrapped in a ResourceEditorModel
contentResolved(e) ==
    IF e.result = "null" THEN fail(e, ErrNotAvailable)
    ELSE IF e.result = "error" THEN fail(e, ErrProvider)
    ELSE IF e.result = "model" THEN complete(e, "ResourceEditorModel")
    ELSE e

\* resolveTextModelContent handing first() the providers' promises, not
\* factories of them: every provider is called at once
resolveTextModelContent_eager(key, registry) ==
    LET resource == parse(key)
        list == providersOf(registry, resource.scheme)
        e == NewEntry(key, "providers", list)
    IN  contentResolved(IF list = <<>> THEN firstLoop(e)
                        ELSE [e EXCEPT !.queue = <<>>, !.invoked = list,
                                       !.inflight = {list[j] : j \in 1..Len(list)}])

resolveTextModelContent(key, registry) ==
    LET resource == parse(key)
        list == providersOf(registry, resource.scheme)
    IN  contentResolved(firstLoop(NewEntry(key, "providers", list)))

\* construction that asks the content providers whatever the scheme
createReferencedObject_providersFirst(key, registry) ==
    resolveTextModelContent(key, registry)

createReferencedObject(key, registry) ==
    LET resource == parse(key)
    IN  IF resource.scheme = SchemaFile
        THEN NewEntry(key, "loadOrCreate", <<>>)
        ELSE resolveTextModelContent(key, registry)

\* destroy that looks at the promise now and disposes only a model it already has
destroyReferencedObject_onlyIfResolved(e) ==
    LET d == [e EXCEPT !.destroyed = @ + 1, !.early = (e.st = "pending")]
    IN  IF d.st = "resolved" THEN disposeResolved(d) ELSE d

destroyReferencedObject(e) ==
    LET d == [e EXCEPT !.destroyed = @ + 1]
    IN  IF d.st = "resolved" THEN disposeResolved(d)
        ELSE IF d.st = "pending" THEN [d EXCEPT !.awaiting = @ + 1, !.early = TRUE]
        ELSE d

\* ------------------------------------------------- ReferenceCollection

\* acquire without the lookup of a live entry: every call constructs
acquire_alwaysCreates(refs, ents, key, registry) ==
    LET ents1 == Append(ents, createReferencedObject(key, registry))
        idx   == Len(ents1)
    IN  << [k \in DOMAIN refs \cup {key} |-> IF k = key THEN idx ELSE refs[k]],
           [ents1 EXCEPT ![idx].counter = @ + 1], idx >>

\* acquire(key): <<references', the key's entries', index of the entry acquired>>
acquire(refs, ents, key, registry) ==
    LET fresh == key \notin DOMAIN refs
        ents1 == IF fresh THEN Append(ents, createReferencedObject(key, registry)) ELSE ents
        idx   == IF fresh THEN Len(ents1) ELSE refs[key]
        refs1 == IF fresh
                 THEN [k \in DOMAIN refs \cup {key} |-> IF k = key THEN idx ELSE refs[k]]
                 ELSE refs
    IN  <<refs1, [ents1 EXCEPT ![idx].counter = @ + 1], idx>>

\* dispose testing the count before decrementing it (counter-- === 0)
refDispose_postDecrement(refs, ents, slot) ==
    IF slot.disposed THEN <<refs, ents>>
    ELSE LET idx  == slot.e
             key  == toString(slot.uri)
             dec  == [ents EXCEPT ![idx].counter = @ - 1]
         IN  IF ents[idx].counter = 0
             THEN << [k \in DOMAIN refs \ {key} |-> refs[k]],
                     [dec EXCEPT ![idx] = destroyReferencedObject(@)] >>
             ELSE <<refs, dec>>

\* the once()-wrapped dispose of the reference a slot holds:
\* <<references', the key's entries'>>
refDispose(refs, ents, slot) ==
    IF slot.disposed THEN <<refs, ents>>
    ELSE LET idx  == slot.e
             key  == toString(slot.uri)
             dec  == [ents EXCEPT ![idx].counter = @ - 1]
         IN  IF dec[idx].counter = 0
             THEN << [k \in DOMAIN refs \ {key} |-> refs[k]],
                     [dec EXCEPT ![idx] = destroyReferencedObject(@)] >>
             ELSE <<refs, dec>>

\* ------------------------------------------------------------------- Init

EmptyMap == [k \in {} |-> 0]

\* no supportsSave call was made yet
NoAnswer == [resource |-> [scheme |-> "none", path |-> "none"], result |-> FALSE,
             registrations |-> 0]

\* HotExitConfiguration
HotExitOFF == "off"
ON_EXIT == "onExit"
ON_EXIT_AND_WINDOW_CLOSE == "onExitAndWindowClose"

\* what files.hotExit may hold in a configuration; "undefined" when not set
HotExitSettings == {HotExitOFF, ON_EXIT, ON_EXIT_AND_WINDOW_CLOSE, "undefined"}

ShutdownReasons == {"CLOSE", "QUIT", "RELOAD", "LOAD"}

\* ConfirmResult; "undefined" while setConfirmResult was not called
ConfirmResults == {"SAVE", "DONT_SAVE", "CANCEL"}

\* the resources the text file service has models for
TargetUri == [scheme |-> SchemaFile, path |-> "b"]
TextUris == {FileUri, TargetUri, UntitledUri}

\* a model that was created and not loaded yet; `saved` is the content on
\* disk ("none": no file), `op` the operation applied to the resource latest
\* and `wasDirty` whether the model was dirty before it
NoModel == [loaded |-> FALSE, dirty |-> FALSE, value |-> "none", saved |-> "disk",
            op |-> "create", wasDirty |-> FALSE]

\* the file was deleted or moved away: its model is gone
Gone(m, op) == [loaded |-> FALSE, dirty |-> FALSE, value |-> "none", saved |-> "none",
                op |-> op, wasDirty |-> m.dirty]

\* operation op was applied to what was model `before` and gave model m
Applied(m, op, before) == [m EXCEPT !.op = op, !.wasDirty = before.dirty]

NoShutdown == [reason |-> "none", veto |-> FALSE, cleanupBackupsBeforeShutdownCalled |-> FALSE,
               backups |-> {}, dirty |-> {}]

\* the environment of the test services: a workspace is open, one window, no
\* answer set for the confirm dialog, not in extension development
TestEnvironment(mac) ==
    [isMacintosh |-> mac, isExtensionDevelopment |-> FALSE, workspace |-> TRUE,
     windowCount |-> 1, confirmResult |-> "undefined"]

InitTextFiles(mac) ==
    /\ currentHotExitConfig = ON_EXIT
    /\ environment = TestEnvironment(mac)
    /\ textFiles = [u \in TextUris |-> NoModel]
    /\ shutdown = NoShutdown

InitResolver ==
    /\ references = EmptyMap
    /\ entries = [k \in AllKeys |-> <<>>]
    /\ providers = EmptyMap
    /\ registrations = <<>>
    /\ slots = [k \in AllKeys |-> <<>>]
    /\ redisposed = 0
    /\ modelServiceModels = {}
    /\ modelListener = {}
    /\ modelSaver = EmptyMap
    /\ saverRegistrations = <<>>
    /\ saves = <<>>
    /\ stateEvents = <<>>
    /\ contentChanges = <<>>
    /\ supported = NoAnswer
    /\ attached = [u \in Uris |-> 0]
    /\ emitterDisposed = FALSE
    /\ disposal = [changes |-> 0, events |-> 0]

\* `private dirty: boolean` has no initializer and the constructor sets none
InitInput ==
    /\ inputDirty = "undefined"
    /\ received = <<>>
    /\ modelReference = 0
    /\ acquired = <<>>
    /\ inputDisposed = FALSE

InitMonitor ==
    /\ mouseMoveEventMerger = 0
    /\ mouseMoveCallback = 0
    /\ onStopCallback = 0
    /\ hooks = {}
    /\ hooksDisposed = FALSE
    /\ starts = <<>>
    /\ stops = <<>>
    /\ stopCallbacks = <<>>

Init == InitResolver /\ InitTextFiles(FALSE) /\ InitInput /\ InitMonitor

\* the same on either platform
InitPlatforms ==
    /\ InitResolver
    /\ \E mac \in BOOLEAN : InitTextFiles(mac)
    /\ InitInput
    /\ InitMonitor

\* ------------------------------------------- TextModelResolverService

NewSlot(uri, via, st, e, err) ==
    [uri |-> uri, via |-> via, st |-> st, e |-> e, err |-> err, disposed |-> FALSE,
     unprovided |-> providersOf(providers, uri.scheme) = <<>>]

\* the slots of key k with the slot sl added
Called(k, sl) == [slots EXCEPT ![k] = Append(@, sl)]

\* createModelReference with file resources loaded like untitled ones: straight
\* from loadOrCreate, wrapped in an ImmortalReference, not through the collection
CreateModelReference_fileUncounted(uri) ==
    LET k == toString(uri)
    IN  /\ IF uri.scheme = SchemaFile
           THEN /\ entries' = [entries EXCEPT ![k] = Append(@, createReferencedObject(k, providers))]
                /\ slots' = Called(k, [NewSlot(uri, "service", "waiting", Len(entries[k]) + 1, NoError)
                                          EXCEPT !.disposed = TRUE])
                /\ UNCHANGED references
           ELSE LET got == acquire(references, entries[k], k, providers)
                IN  /\ references' = got[1]
                    /\ entries' = [entries EXCEPT ![k] = got[2]]
                    /\ slots' = Called(k, NewSlot(uri, "service", "waiting", got[3], NoError))
        /\ UNCHANGED <<providers, registrations, redisposed, modelServiceModels, modelListener, saverVars,
                   emitterVars, otherVars>>

\* createModelReference without the branch for the untitled scheme
CreateModelReference_untitledCounted(uri) ==
    LET k == toString(uri)
    IN  /\ IF uri.scheme = SchemaInMemory
           THEN /\ slots' = Called(k,
                      IF uri \in modelServiceModels
                      THEN NewSlot(uri, "inmemory", "holding", 0, NoError)
                      ELSE NewSlot(uri, "inmemory", "failed", 0, ErrInMemory))
                /\ UNCHANGED <<references, entries>>
           ELSE LET got == acquire(references, entries[k], k, providers)
                IN  /\ references' = got[1]
                    /\ entries' = [entries EXCEPT ![k] = got[2]]
                    /\ slots' = Called(k, NewSlot(uri, "service", "waiting", got[3], NoError))
        /\ UNCHANGED <<providers, registrations, redisposed, modelServiceModels, modelListener, saverVars,
                   emitterVars, otherVars>>

\* createModelReference without the branch for the inmemory scheme
CreateModelReference_inmemoryCounted(uri) ==
    LET k == toString(uri)
    IN  /\ IF uri.scheme = UNTITLED_SCHEMA
           THEN /\ slots' = Called(k, NewSlot(uri, "untitled", "waiting", 0, NoError))
                /\ UNCHANGED <<references, entries>>
           ELSE LET got == acquire(references, entries[k], k, providers)
                IN  /\ references' = got[1]
                    /\ entries' = [entries EXCEPT ![k] = got[2]]
                    /\ slots' = Called(k, NewSlot(uri, "service", "waiting", got[3], NoError))
        /\ UNCHANGED <<providers, registrations, redisposed, modelServiceModels, modelListener, saverVars,
                   emitterVars, otherVars>>

CreateModelReference(uri) ==
    LET k == toString(uri)
    IN  /\ IF uri.scheme = UNTITLED_SCHEMA
           THEN /\ slots' = Called(k, NewSlot(uri, "untitled", "waiting", 0, NoError))
                /\ UNCHANGED <<references, entries>>
           ELSE IF uri.scheme = SchemaInMemory
           THEN /\ slots' = Called(k,
                      IF uri \in modelServiceModels
                      THEN NewSlot(uri, "inmemory", "holding", 0, NoError)
                      ELSE NewSlot(uri, "inmemory", "failed", 0, ErrInMemory))
                /\ UNCHANGED <<references, entries>>
           ELSE LET got == acquire(references, entries[k], k, providers)
                IN  /\ references' = got[1]
                    /\ entries' = [entries EXCEPT ![k] = got[2]]
                    /\ slots' = Called(k, NewSlot(uri, "service", "waiting", got[3], NoError))
        /\ UNCHANGED <<providers, registrations, redisposed, modelServiceModels, modelListener, saverVars,
                   emitterVars, otherVars>>

\* ref.object.then(model => ({ object: model, dispose: () => ref.dispose() }), ...)
ReferenceResolved(k, s) ==
    /\ slots[k][s].via = "service"
    /\ slots[k][s].st = "waiting"
    /\ entries[k][slots[k][s].e].st = "resolved"
    /\ slots' = [slots EXCEPT ![k][s].st = "holding"]
    /\ UNCHANGED <<references, entries, providers, registrations, redisposed,
                   modelServiceModels, modelListener, saverVars,
                   emitterVars, otherVars>>

\* an error callback that reports the error and keeps the reference
ReferenceRejected_keepsReference(k, s) ==
    /\ slots[k][s].via = "service"
    /\ slots[k][s].st = "waiting"
    /\ entries[k][slots[k][s].e].st = "rejected"
    /\ slots' = [slots EXCEPT ![k][s].st = "failed",
                              ![k][s].err = entries[k][slots[k][s].e].err]
    /\ UNCHANGED <<references, entries, providers, registrations, redisposed,
                   modelServiceModels, modelListener, saverVars,
                   emitterVars, otherVars>>

\* an error callback that releases the reference and returns nothing: the
\* caller's promise completes, with no reference
ReferenceRejected_swallowsError(k, s) ==
    /\ slots[k][s].via = "service"
    /\ slots[k][s].st = "waiting"
    /\ entries[k][slots[k][s].e].st = "rejected"
    /\ LET out == refDispose(references, entries[k], slots[k][s])
       IN  /\ references' = out[1]
           /\ entries' = [entries EXCEPT ![k] = out[2]]
    /\ slots' = [slots EXCEPT ![k][s].st = "holding", ![k][s].disposed = TRUE]
    /\ UNCHANGED <<providers, registrations, redisposed, modelServiceModels, modelListener, saverVars,
                   emitterVars, otherVars>>

\* ref.object.then(..., err => { ref.dispose(); return TPromise.wrapError(err); })
ReferenceRejected(k, s) ==
    /\ slots[k][s].via = "service"
    /\ slots[k][s].st = "waiting"
    /\ entries[k][slots[k][s].e].st = "rejected"
    /\ LET out == refDispose(references, entries[k], slots[k][s])
       IN  /\ references' = out[1]
           /\ entries' = [entries EXCEPT ![k] = out[2]]
    /\ slots' = [slots EXCEPT ![k][s].st = "failed",
                              ![k][s].disposed = TRUE,
                              ![k][s].err = entries[k][slots[k][s].e].err]
    /\ UNCHANGED <<providers, registrations, redisposed, modelServiceModels, modelListener, saverVars,
                   emitterVars, otherVars>>

\* untitledEditorService.loadOrCreate({ resource }).then(model => new ImmortalReference(model))
UntitledLoaded(k, s) ==
    /\ slots[k][s].via = "untitled"
    /\ slots[k][s].st = "waiting"
    /\ slots' = [slots EXCEPT ![k][s].st = "holding"]
    /\ UNCHANGED <<references, entries, providers, registrations, redisposed,
                   modelServiceModels, modelListener, saverVars,
                   emitterVars, otherVars>>

\* a handle whose dispose is wired to the destroy routine, not to ref.dispose()
handleDispose_destroys(refs, ents, slot) ==
    IF slot.via \in {"untitled", "inmemory"} THEN <<refs, ents>>
    ELSE <<refs, [ents EXCEPT ![slot.e] = destroyReferencedObject(@)]>>

\* the dispose of the handle createModelReference returned: () => ref.dispose()
\* for a counted reference, nothing for an ImmortalReference
handleDispose(refs, ents, slot) ==
    IF slot.via \in {"untitled", "inmemory"} THEN <<refs, ents>>
    ELSE refDispose(refs, ents, slot)

\* a holder calls dispose on its handle, for the first time or again
DisposeReference(k, s) ==
    /\ slots[k][s].st \in {"holding", "released"}
    /\ IF slots[k][s].st = "released"
       THEN /\ redisposed < MaxRedispose
            /\ redisposed' = redisposed + 1
       ELSE UNCHANGED redisposed
    /\ IF k \in Keys
       THEN LET out == handleDispose(references, entries[k], slots[k][s])
            IN  /\ references' = out[1]
                /\ entries' = [entries EXCEPT ![k] = out[2]]
       ELSE UNCHANGED <<references, entries>>
    /\ slots' = [slots EXCEPT ![k][s].st = "released",
                              ![k][s].disposed = (slots[k][s].via \in {"service", "collection"})]
    /\ UNCHANGED <<providers, registrations, modelServiceModels, modelListener, saverVars,
                   emitterVars, otherVars>>

\* ReferenceCollection.acquire called on the collection itself: the holder has
\* the reference, and so its dispose, while the promise may still be pending
CollectionAcquire(uri) ==
    LET k == toString(uri)
    IN  /\ LET got == acquire(references, entries[k], k, providers)
           IN  /\ references' = got[1]
               /\ entries' = [entries EXCEPT ![k] = got[2]]
               /\ slots' = Called(k, NewSlot(uri, "collection", "holding", got[3], NoError))
        /\ UNCHANGED <<providers, registrations, redisposed, modelServiceModels, modelListener, saverVars,
                   emitterVars, otherVars>>

\* ------------------------------------------------------ the collaborators

\* textFileService.models.loadOrCreate(resource) completes with the file model
LoadOrCreateCompletes(k, i) ==
    /\ entries[k][i].origin = "loadOrCreate"
    /\ entries[k][i].st = "pending"
    /\ entries' = [entries EXCEPT ![k][i] = complete(@, "TextFileEditorModel")]
    /\ UNCHANGED <<references, providers, registrations, slots, redisposed,
                   modelServiceModels, modelListener, saverVars,
                   emitterVars, otherVars>>

\* textFileService.models.loadOrCreate(resource) fails
LoadOrCreateFails(k, i) ==
    /\ entries[k][i].origin = "loadOrCreate"
    /\ entries[k][i].st = "pending"
    /\ entries' = [entries EXCEPT ![k][i] = fail(@, ErrLoad)]
    /\ UNCHANGED <<references, providers, registrations, slots, redisposed,
                   modelServiceModels, modelListener, saverVars,
                   emitterVars, otherVars>>

\* the factories read from the registry as it is when a call returns, not
\* from the copy made when the resolution started
ProvideTextContentReturns_liveRegistry(k, i, pr, outcome) ==
    /\ pr \in entries[k][i].inflight
    /\ LET e == entries[k][i]
           live == SelectSeq(providersOf(providers, parse(k).scheme),
                             LAMBDA x : \A j \in 1..Len(e.invoked) : e.invoked[j] # x)
       IN  entries' = [entries EXCEPT ![k][i] =
                          contentResolved(firstReturned([e EXCEPT !.queue = live], pr, outcome))]
    /\ UNCHANGED <<references, providers, registrations, slots, redisposed,
                   modelServiceModels, modelListener, saverVars,
                   emitterVars, otherVars>>

\* provider pr's provideTextContent(resource) returns for construction i of key k
ProvideTextContentReturns(k, i, pr, outcome) ==
    /\ pr \in entries[k][i].inflight
    /\ entries' = [entries EXCEPT ![k][i] = contentResolved(firstReturned(@, pr, outcome))]
    /\ UNCHANGED <<references, providers, registrations, slots, redisposed,
                   modelServiceModels, modelListener, saverVars,
                   emitterVars, otherVars>>

\* the model service gets / loses the model of an in-memory resource
\* ModelChangeEventEmitter._onModelAdded: subscribe to the model's content changes
onModelAdded(listeners, m) == listeners \cup {m}

\* ModelChangeEventEmitter._onModelRemoved: dispose and forget the subscription
onModelRemoved(listeners, m) == listeners \ {m}

\* m.onDidChangeContent(...): one more subscription of the emitter on m
subscribe(att, m) == [att EXCEPT ![m] = @ + 1]

\* _onModelRemoved forgetting the map entry without disposing the subscription
unsubscribe_forgetsOnly(att, listeners, m) == att

\* dispose(this._modelListener.get(m)): the stored subscription is detached
unsubscribe(att, listeners, m) ==
    IF m \in listeners /\ att[m] > 0 THEN [att EXCEPT ![m] = @ - 1] ELSE att

\* the model service adds a model; a disposed emitter no longer listens
ModelServiceCreateModel(uri) ==
    /\ uri \notin modelServiceModels
    /\ modelServiceModels' = modelServiceModels \cup {uri}
    /\ modelListener' = IF emitterDisposed THEN modelListener
                        ELSE onModelAdded(modelListener, uri)
    /\ attached' = IF emitterDisposed THEN attached ELSE subscribe(attached, uri)
    /\ UNCHANGED <<collectionVars, saverVars, emitterDisposed, disposal, otherVars>>

\* the model service removes a model; the removed model takes the
\* subscriptions that are still attached to it along
ModelServiceDestroyModel(uri) ==
    /\ uri \in modelServiceModels
    /\ modelServiceModels' = modelServiceModels \ {uri}
    /\ modelListener' = IF emitterDisposed THEN modelListener
                        ELSE onModelRemoved(modelListener, uri)
    /\ attached' = IF emitterDisposed THEN attached
                   ELSE unsubscribe(attached, modelListener, uri)
    /\ UNCHANGED <<collectionVars, saverVars, emitterDisposed, disposal, otherVars>>

\* every stored subscription is disposed; the map itself is not cleared
disposeListeners(att, listeners) ==
    [m \in DOMAIN att |-> IF m \in listeners /\ att[m] > 0 THEN att[m] - 1 ELSE att[m]]

\* TextModelResolverService.dispose -> ModelChangeEventEmitter.dispose
DisposeService ==
    /\ ~emitterDisposed
    /\ emitterDisposed' = TRUE
    /\ disposal' = [changes |-> Len(contentChanges), events |-> Len(stateEvents)]
    /\ attached' = disposeListeners(attached, modelListener)
    /\ UNCHANGED <<collectionVars, modelServiceModels, modelListener, saverVars, otherVars>>

\* --------------------------------------------------- content providers

\* providers.unshift(provider)
unshift(list, provider) == <<provider>> \o list

\* registration with providers.push(provider)
registerTextModelContentProvider_push(registry, scheme, provider) ==
    LET list == Append(providersOf(registry, scheme), provider)
    IN  [s \in DOMAIN registry \cup {scheme} |-> IF s = scheme THEN list ELSE registry[s]]

registerTextModelContentProvider(registry, scheme, provider) ==
    LET list == unshift(providersOf(registry, scheme), provider)
    IN  [s \in DOMAIN registry \cup {scheme} |-> IF s = scheme THEN list ELSE registry[s]]

\* the disposable with array.splice(index): the rest of the array goes too
unregisterTextModelContentProvider_spliceRest(registry, scheme, provider) ==
    IF scheme \notin DOMAIN registry THEN registry
    ELSE LET array == registry[scheme]
             index == indexOf(array, provider)
         IN  IF index = 0 THEN registry
             ELSE IF index = 1
             THEN [s \in DOMAIN registry \ {scheme} |-> registry[s]]
             ELSE [registry EXCEPT ![scheme] = SubSeq(array, 1, index - 1)]

\* the disposable registerTextModelContentProvider returned
unregisterTextModelContentProvider(registry, scheme, provider) ==
    IF scheme \notin DOMAIN registry THEN registry
    ELSE LET array == registry[scheme]
             index == indexOf(array, provider)
         IN  IF index = 0 THEN registry
             ELSE IF Len(array) = 1
             THEN [s \in DOMAIN registry \ {scheme} |-> registry[s]]
             ELSE [registry EXCEPT ![scheme] = RemoveAt(array, index)]

RegisterTextModelContentProvider(scheme) ==
    /\ registrations' = Append(registrations, scheme)
    /\ providers' = registerTextModelContentProvider(providers, scheme, Len(registrations) + 1)
    /\ UNCHANGED <<references, entries, slots, redisposed, modelServiceModels, modelListener, saverVars,
                   emitterVars, otherVars>>

UnregisterTextModelContentProvider(pr) ==
    /\ providers' = unregisterTextModelContentProvider(providers, registrations[pr], pr)
    /\ UNCHANGED <<references, entries, registrations, slots, redisposed, modelServiceModels, modelListener, saverVars,
                   emitterVars, otherVars>>

\* ------------------------------------------------------------------ savers

\* schemes a saver is registered for, and resources saved, in this model
SaverSchemes == {SchemaDemo, SchemaFile}
SaveUris == {DemoUri, FileUri}

\* an ITextModelStateChangeEvent
StateEvent(type, resource) == [type |-> type, resource |-> resource]

\* this._onDidChangeState.fire(event)
fire(events, event) == Append(events, event)

\* this._modelSaver.has(scheme)
has(map, scheme) == scheme \in DOMAIN map

\* registerTextModelSaver without the test for a saver of the scheme
registerTextModelSaver_overwrites(map, scheme, saver) ==
    [threw |-> FALSE,
     map |-> [s \in DOMAIN map \cup {scheme} |-> IF s = scheme THEN saver ELSE map[s]]]

\* registerTextModelSaver(scheme, saver): whether it throws, and the map after it
registerTextModelSaver(map, scheme, saver) ==
    IF has(map, scheme)
    THEN [threw |-> TRUE, map |-> map]
    ELSE [threw |-> FALSE,
          map |-> [s \in DOMAIN map \cup {scheme} |-> IF s = scheme THEN saver ELSE map[s]]]

\* the dispose of the handle registerTextModelSaver returned: _modelSaver.delete(scheme)
disposeTextModelSaver(map, scheme) == [s \in DOMAIN map \ {scheme} |-> map[s]]

RegisterTextModelSaver(scheme) ==
    LET saver == Len(saverRegistrations) + 1
        call == registerTextModelSaver(modelSaver, scheme, saver)
    IN  /\ saverRegistrations' = Append(saverRegistrations, [scheme |-> scheme, threw |-> call.threw])
        /\ modelSaver' = call.map
        /\ UNCHANGED <<emitterVars, otherVars, collectionVars, modelServiceModels, modelListener,
                       saves, stateEvents, contentChanges, supported>>

\* the handle of the i-th registerTextModelSaver call is disposed
DisposeTextModelSaver(i) ==
    /\ ~saverRegistrations[i].threw
    /\ modelSaver' = disposeTextModelSaver(modelSaver, saverRegistrations[i].scheme)
    /\ UNCHANGED <<emitterVars, otherVars, collectionVars, modelServiceModels, modelListener,
                   saverRegistrations, saves, stateEvents, contentChanges, supported>>

\* a save call: its resource, how far it is, its error, the saver it called,
\* and where in stateEvents its 'saving' and 'saved' events are (0: not fired)
NewSave(resource, st, err, saver, saving) ==
    [resource |-> resource, st |-> st, err |-> err, saver |-> saver,
     saving |-> saving, saved |-> 0]

\* save firing 'saving' before it looks for the model and the saver
save_savingFirst(map, models, events, resource) ==
    LET fired == fire(events, StateEvent("saving", resource))
    IN  IF resource \notin models
        THEN [call |-> NewSave(resource, "failed", MISSING_MODEL, 0, 0), events |-> fired]
        ELSE IF ~has(map, resource.scheme)
        THEN [call |-> NewSave(resource, "failed", MISSING_SAVER, 0, 0), events |-> fired]
        ELSE [call |-> NewSave(resource, "running", NoError, map[resource.scheme], Len(events) + 1),
              events |-> fired]

\* save(resource): the call and the events fired up to the saver's call
save(map, models, events, resource) ==
    IF resource \notin models
    THEN [call |-> NewSave(resource, "failed", MISSING_MODEL, 0, 0), events |-> events]
    ELSE IF ~has(map, resource.scheme)
    THEN [call |-> NewSave(resource, "failed", MISSING_SAVER, 0, 0), events |-> events]
    ELSE [call |-> NewSave(resource, "running", NoError, map[resource.scheme], Len(events) + 1),
          events |-> fire(events, StateEvent("saving", resource))]

Save(uri) ==
    LET r == save(modelSaver, modelServiceModels, stateEvents, uri)
    IN  /\ saves' = Append(saves, r.call)
        /\ stateEvents' = r.events
        /\ UNCHANGED <<emitterVars, otherVars, collectionVars, modelServiceModels, modelListener,
                       modelSaver, saverRegistrations, contentChanges, supported>>

\* the then() callback firing nothing
SaveTextContentCompletes_silent(j) ==
    /\ saves[j].st = "running"
    /\ saves' = [saves EXCEPT ![j].st = "done"]
    /\ UNCHANGED <<emitterVars, otherVars, collectionVars, modelServiceModels, modelListener, modelSaver,
                   saverRegistrations, stateEvents, contentChanges, supported>>

\* saver.saveTextContent(...) completes: the then() callback fires 'saved'
SaveTextContentCompletes(j) ==
    /\ saves[j].st = "running"
    /\ stateEvents' = fire(stateEvents, StateEvent("saved", saves[j].resource))
    /\ saves' = [saves EXCEPT ![j].st = "done", ![j].saved = Len(stateEvents) + 1]
    /\ UNCHANGED <<emitterVars, otherVars, collectionVars, modelServiceModels, modelListener,
                   modelSaver, saverRegistrations, contentChanges, supported>>

\* a then() that fires 'saved' from its error callback too
SaveTextContentFails_firesSaved(j) ==
    /\ saves[j].st = "running"
    /\ stateEvents' = fire(stateEvents, StateEvent("saved", saves[j].resource))
    /\ saves' = [saves EXCEPT ![j].st = "failed", ![j].err = ErrSaver]
    /\ UNCHANGED <<emitterVars, otherVars, collectionVars, modelServiceModels, modelListener,
                   modelSaver, saverRegistrations, contentChanges, supported>>

\* saver.saveTextContent(...) fails: then() has no error callback
SaveTextContentFails(j) ==
    /\ saves[j].st = "running"
    /\ saves' = [saves EXCEPT ![j].st = "failed", ![j].err = ErrSaver]
    /\ UNCHANGED <<emitterVars, otherVars, collectionVars, modelServiceModels, modelListener,
                   modelSaver, saverRegistrations, stateEvents, contentChanges, supported>>

\* the listener without the test for a saver of the scheme
onDidChangeContent_anyScheme(events, map, model) == fire(events, StateEvent("dirty", model))

\* the listener firing 'dirty' only when the resource is not known dirty already
onDidChangeContent_onceDirty(events, map, model) ==
    IF /\ has(map, model.scheme)
       /\ ~\E i \in 1..Len(events) :
             /\ events[i] = StateEvent("dirty", model)
             /\ \A j \in (i + 1)..Len(events) : events[j].resource # model
    THEN fire(events, StateEvent("dirty", model))
    ELSE events

\* the listener the constructor puts on the emitter's onDidChangeContent
onDidChangeContent(events, map, model) ==
    IF has(map, model.scheme) THEN fire(events, StateEvent("dirty", model)) ELSE events

\* the content of a model of the model service changes
ChangeContent(uri) ==
    /\ uri \in modelServiceModels
    /\ contentChanges' = Append(contentChanges, uri)
    /\ stateEvents' = IF attached[uri] > 0 /\ ~emitterDisposed
                      THEN onDidChangeContent(stateEvents, modelSaver, uri)
                      ELSE stateEvents
    /\ UNCHANGED <<emitterVars, otherVars, collectionVars, modelServiceModels, modelListener,
                   modelSaver, saverRegistrations, saves, supported>>

\* supportsSave looking for any saver at all
supportsSave_anySaver(map, resource) == DOMAIN map # {}

supportsSave(map, resource) == has(map, resource.scheme)

SupportsSave(uri) ==
    /\ supported' = [resource |-> uri, result |-> supportsSave(modelSaver, uri),
                     registrations |-> Len(saverRegistrations)]
    /\ UNCHANGED <<emitterVars, otherVars, collectionVars, modelServiceModels, modelListener,
                   modelSaver, saverRegistrations, saves, stateEvents, contentChanges>>

\* ------------------------------------------------------------------- Next

\* A step of a caller, of a holder, or of a collaborator that builds a model,
\* in a behaviour of at most `calls` createModelReference / acquire calls.
Holders(calls) ==
    \/ \E u \in CollectionUris : Calls < calls /\ CreateModelReference(u)
    \/ \E u \in CollectionUris : Calls < calls /\ CollectionAcquire(u)
    \/ \E k \in Keys : \E s \in 1..Len(slots[k]) : ReferenceResolved(k, s)
    \/ \E k \in Keys : \E s \in 1..Len(slots[k]) : ReferenceRejected(k, s)
    \/ \E k \in Keys : \E s \in 1..Len(slots[k]) : DisposeReference(k, s)
    \/ \E k \in Keys : \E i \in 1..Len(entries[k]) : LoadOrCreateCompletes(k, i)
    \/ \E k \in Keys : \E i \in 1..Len(entries[k]) : LoadOrCreateFails(k, i)
    \/ \E k \in Keys : \E i \in 1..Len(entries[k]) :
          \E pr \in entries[k][i].inflight : \E o \in Outcomes :
              ProvideTextContentReturns(k, i, pr, o)

\* A step of the provider registry, in a behaviour of at most `regs` registrations.
Registry(regs) ==
    \/ \E sc \in ProviderSchemes :
          Len(registrations) < regs /\ RegisterTextModelContentProvider(sc)
    \/ \E pr \in 1..Len(registrations) : UnregisterTextModelContentProvider(pr)

\* Reference counting: up to MaxCalls calls on the two keys; the one content
\* provider of scheme demo is registered at some point and stays registered.
Next ==
    \/ Holders(MaxCalls)
    \/ registrations = <<>> /\ RegisterTextModelContentProvider(SchemaDemo)

Spec == Init /\ [][Next]_vars

\* Content resolution: two calls, while up to MaxProviders content providers
\* are registered and unregistered.
NextProviders ==
    \/ Holders(2)
    \/ Registry(MaxProviders)

SpecProviders == Init /\ [][NextProviders]_vars

\* the URIs createModelReference is called with where the schemes are told apart
SchemeUris == {FileUri, UntitledUri, InMemoryUri}

\* The three ways of createModelReference: calls for a file, an untitled and an
\* inmemory URI, while the inmemory model comes and goes in the model service
\* and a content provider is registered for the untitled or the inmemory scheme.
NextSchemes ==
    \/ \E u \in SchemeUris : Calls < MaxCalls /\ CreateModelReference(u)
    \/ \E k \in AllKeys : \E s \in 1..Len(slots[k]) : UntitledLoaded(k, s)
    \/ \E k \in AllKeys : \E s \in 1..Len(slots[k]) : ReferenceResolved(k, s)
    \/ \E k \in AllKeys : \E s \in 1..Len(slots[k]) : ReferenceRejected(k, s)
    \/ \E k \in AllKeys : \E s \in 1..Len(slots[k]) : DisposeReference(k, s)
    \/ \E k \in AllKeys : \E i \in 1..Len(entries[k]) : LoadOrCreateCompletes(k, i)
    \/ \E k \in AllKeys : \E i \in 1..Len(entries[k]) : LoadOrCreateFails(k, i)
    \/ ModelServiceCreateModel(InMemoryUri)
    \/ ModelServiceDestroyModel(InMemoryUri)
    \/ \E sc \in {UNTITLED_SCHEMA, SchemaInMemory} :
          registrations = <<>> /\ RegisterTextModelContentProvider(sc)

SpecSchemes == Init /\ [][NextSchemes]_vars

\* A model is added to or removed from the model service.
Models ==
    \/ \E u \in SaveUris : ModelServiceCreateModel(u)
    \/ \E u \in SaveUris : ModelServiceDestroyModel(u)

\* A step of the saver map, in a behaviour of at most `regs` registrations.
SaverRegistry(regs) ==
    \/ \E sc \in SaverSchemes :
          Len(saverRegistrations) < regs /\ RegisterTextModelSaver(sc)
    \/ \E i \in 1..Len(saverRegistrations) : DisposeTextModelSaver(i)

\* A step of a save, in a behaviour of at most `calls` save calls.
Saving(calls) ==
    \/ \E u \in SaveUris : Len(saves) < calls /\ Save(u)
    \/ \E j \in 1..Len(saves) : SaveTextContentCompletes(j)
    \/ \E j \in 1..Len(saves) : SaveTextContentFails(j)

\* Savers: up to MaxSavers registrations, two saves, and supportsSave calls,
\* while models come and go in the model service.
NextSavers ==
    \/ Models
    \/ SaverRegistry(MaxSavers)
    \/ Saving(2)
    \/ \E u \in SaveUris : SupportsSave(u)

SpecSavers == Init /\ [][NextSavers]_vars

\* State events: up to MaxSaves saves and MaxChanges content changes, while
\* models come and go and one saver registration is made and disposed.
\* ---------------------------------------------------- text file service

\* FilesConfigurationService.onFilesConfigurationChange, the hot exit part
onFilesConfigurationChange(hotExitMode) ==
    IF hotExitMode = HotExitOFF \/ hotExitMode = ON_EXIT_AND_WINDOW_CLOSE
    THEN hotExitMode
    ELSE ON_EXIT

\* hot exit taken as enabled only for the setting that names window close
isHotExitEnabled_onlyWindowClose(config, env) ==
    ~env.isExtensionDevelopment /\ config = ON_EXIT_AND_WINDOW_CLOSE

\* hot exit taken as enabled only for the setting 'onExit'
isHotExitEnabled_onlyOnExit(config, env) ==
    ~env.isExtensionDevelopment /\ config = ON_EXIT

\* hot exit taken as enabled exactly when it is set to off
isHotExitEnabled_inverted(config, env) ==
    ~env.isExtensionDevelopment /\ config = HotExitOFF

\* hot exit taken as enabled whatever the setting
isHotExitEnabled_ignoresOff(config, env) == ~env.isExtensionDevelopment

\* FilesConfigurationService.isHotExitEnabled
isHotExitEnabled(config, env) ==
    ~env.isExtensionDevelopment /\ config # HotExitOFF

OnFilesConfigurationChange(hotExitMode) ==
    /\ shutdown = NoShutdown
    /\ currentHotExitConfig' = onFilesConfigurationChange(hotExitMode)
    /\ UNCHANGED <<resolverVars, inputVars, monitorVars, environment, textFiles, shutdown>>

\* contextService.setWorkspace(new Workspace('empty:...')): no folder is open
SetWorkspace ==
    /\ shutdown = NoShutdown
    /\ environment.workspace
    /\ environment' = [environment EXCEPT !.workspace = FALSE]
    /\ UNCHANGED <<resolverVars, inputVars, monitorVars, currentHotExitConfig, textFiles, shutdown>>

\* electronService.windowCount = Promise.resolve(2)
SetWindowCount ==
    /\ shutdown = NoShutdown
    /\ environment.windowCount = 1
    /\ environment' = [environment EXCEPT !.windowCount = 2]
    /\ UNCHANGED <<resolverVars, inputVars, monitorVars, currentHotExitConfig, textFiles, shutdown>>

\* fileDialogService.setConfirmResult(result)
SetConfirmResult(result) ==
    /\ shutdown = NoShutdown
    /\ environment' = [environment EXCEPT !.confirmResult = result]
    /\ UNCHANGED <<resolverVars, inputVars, monitorVars, currentHotExitConfig, textFiles, shutdown>>

\* model.load() / untitled.resolve(): the model holds the content on disk
load(m) == IF m.loaded THEN m ELSE [m EXCEPT !.loaded = TRUE, !.value = m.saved]

Load(uri) ==
    /\ shutdown = NoShutdown
    /\ ~textFiles[uri].loaded
    /\ textFiles[uri].saved # "none"
    /\ textFiles' = [textFiles EXCEPT ![uri] = Applied(load(@), "load", @)]
    /\ UNCHANGED <<resolverVars, inputVars, monitorVars, currentHotExitConfig, environment, shutdown>>

\* model.textEditorModel.setValue(value): a content change makes the model dirty
setValue(m, value) ==
    IF m.value = value THEN m ELSE [m EXCEPT !.value = value, !.dirty = TRUE]

SetValue(uri, value) ==
    /\ shutdown = NoShutdown
    /\ textFiles[uri].loaded
    /\ textFiles[uri].value # value
    /\ textFiles' = [textFiles EXCEPT ![uri] = Applied(setValue(@, value), "setValue", @)]
    /\ UNCHANGED <<resolverVars, inputVars, monitorVars, currentHotExitConfig, environment, shutdown>>

\* textFileService.isDirty(resource)
isDirty(files, resource) == files[resource].dirty

\* getDirty() that asks the file models only
getDirty_filesOnly(files) ==
    {u \in DOMAIN files : u.scheme = SchemaFile /\ files[u].dirty}

\* textFileService.getDirty(): the dirty file models, then the dirty untitled ones
getDirty(files) ==
    {u \in DOMAIN files : u.scheme = SchemaFile /\ files[u].dirty}
        \cup {u \in DOMAIN files : u.scheme = UNTITLED_SCHEMA /\ files[u].dirty}

\* the model writes its value to disk and is clean
saveModel(m) == IF m.dirty THEN [m EXCEPT !.dirty = FALSE, !.saved = m.value] ELSE m

\* saveAll(): every dirty model is saved
saveAll(files) == [u \in DOMAIN files |-> saveModel(files[u])]

\* the model takes the content on disk again and is clean
revertModel(m) == IF m.dirty THEN [m EXCEPT !.dirty = FALSE, !.value = m.saved] ELSE m

\* untitledTextEditorService.revertAll()
revertAllUntitled(files) ==
    [u \in DOMAIN files |->
        IF u.scheme = UNTITLED_SCHEMA THEN revertModel(files[u]) ELSE files[u]]

\* textFileService.save(resource)
SaveFile(uri) ==
    /\ textFiles[uri].loaded
    /\ textFiles' = [textFiles EXCEPT ![uri] = Applied(saveModel(@), "save", @)]
    /\ UNCHANGED <<resolverVars, inputVars, monitorVars, currentHotExitConfig, environment, shutdown>>

\* textFileService.saveAll([resource])
SaveAllFiles(uri) ==
    /\ textFiles[uri].loaded
    /\ textFiles' = [textFiles EXCEPT ![uri] = Applied(saveModel(@), "saveAll", @)]
    /\ UNCHANGED <<resolverVars, inputVars, monitorVars, currentHotExitConfig, environment, shutdown>>

\* the target of saveAs holds the source's value, on disk too
savedAs(source, target) ==
    [target EXCEPT !.loaded = TRUE, !.dirty = FALSE,
                   !.value = source.value, !.saved = source.value]

\* textFileService.saveAs(resource) with the prompt path set to target: onto
\* itself the model is saved; onto another file the target is written and
\* the source is reverted
SaveAs(uri, target) ==
    /\ textFiles[uri].loaded
    /\ textFiles' =
         IF target = uri
         THEN [textFiles EXCEPT ![uri] = Applied(saveModel(@), "saveAs", @)]
         ELSE [textFiles EXCEPT
                 ![uri] = Applied(revertModel(@), "saveAs", @),
                 ![target] = Applied(savedAs(textFiles[uri], @), "saveAsTarget", @)]
    /\ UNCHANGED <<resolverVars, inputVars, monitorVars, currentHotExitConfig, environment, shutdown>>

\* textFileService.revert(resource)
Revert(uri) ==
    /\ textFiles[uri].loaded
    /\ textFiles' = [textFiles EXCEPT ![uri] = Applied(revertModel(@), "revert", @)]
    /\ UNCHANGED <<resolverVars, inputVars, monitorVars, currentHotExitConfig, environment, shutdown>>

\* textFileService.delete(resource): the dirty model is reverted, the file deleted
Delete(uri) ==
    /\ textFiles[uri].saved # "none"
    /\ textFiles' = [textFiles EXCEPT ![uri] = Gone(@, "delete")]
    /\ UNCHANGED <<resolverVars, inputVars, monitorVars, currentHotExitConfig, environment, shutdown>>

\* a move that leaves the target as the file on disk: loaded and not dirty
moved_clean(source, target) ==
    [target EXCEPT !.loaded = TRUE, !.value = source.saved, !.saved = source.saved,
                   !.dirty = FALSE]

\* the target model after the move: the file is the source's file, and the
\* value and the dirty state of a dirty source model are restored on it
moved(source, target) ==
    [target EXCEPT !.loaded = TRUE, !.saved = source.saved,
                   !.value = IF source.dirty THEN source.value ELSE source.saved,
                   !.dirty = source.dirty]

\* textFileService.move(source, target, true)
Move(source, target) ==
    /\ source # target
    /\ textFiles[source].loaded
    /\ textFiles' = [textFiles EXCEPT
                       ![target] = Applied(moved(textFiles[source], @), "moveTarget", @),
                       ![source] = Gone(@, "move")]
    /\ UNCHANGED <<resolverVars, inputVars, monitorVars, currentHotExitConfig, environment, shutdown>>

FileUris == {FileUri, TargetUri}

\* the file and untitled models are loaded, edited, saved, reverted, deleted
\* and moved
NextTextFiles ==
    \/ \E u \in TextUris : Load(u)
    \/ \E u \in TextUris : \E v \in {"foo", "bar"} : SetValue(u, v)
    \/ \E u \in FileUris : SaveFile(u)
    \/ \E u \in FileUris : SaveAllFiles(u)
    \/ \E u \in FileUris : \E t \in FileUris : SaveAs(u, t)
    \/ \E u \in FileUris : Revert(u)
    \/ \E u \in FileUris : Delete(u)
    \/ \E u \in FileUris : \E t \in FileUris : Move(u, t)

SpecTextFiles == Init /\ [][NextTextFiles]_vars

\* whether the dirty models are backed up for this shutdown, so that it needs
\* no confirmation: always for QUIT and RELOAD; with a folder open and
\* onExitAndWindowClose also for CLOSE and LOAD; otherwise for CLOSE of the
\* last window off macOS, and never for LOAD
doBackup(config, env, reason) ==
    CASE reason = "CLOSE" ->
            IF env.workspace /\ config = ON_EXIT_AND_WINDOW_CLOSE THEN TRUE
            ELSE IF env.windowCount > 1 \/ env.isMacintosh THEN FALSE
            ELSE TRUE
      [] reason = "QUIT" -> TRUE
      [] reason = "RELOAD" -> TRUE
      [] reason = "LOAD" -> env.workspace /\ config = ON_EXIT_AND_WINDOW_CLOSE

\* the outcome of a shutdown that is not vetoed
noVeto(files, reason, cleanUpBackups, backups, dirty) ==
    [files |-> files,
     shutdown |-> [reason |-> reason, veto |-> FALSE,
                   cleanupBackupsBeforeShutdownCalled |-> cleanUpBackups,
                   backups |-> backups, dirty |-> dirty]]

\* the outcome of a vetoed shutdown
doVeto(files, reason, dirty) ==
    [files |-> files,
     shutdown |-> [reason |-> reason, veto |-> TRUE,
                   cleanupBackupsBeforeShutdownCalled |-> FALSE,
                   backups |-> {}, dirty |-> dirty]]

\* the user is asked what to do with the dirty models
confirmBeforeShutdown(files, env, reason) ==
    LET dirty == getDirty(files)
    IN  CASE env.confirmResult = "SAVE" ->
                noVeto(saveAll(files), reason, TRUE, {}, dirty)
          [] env.confirmResult = "DONT_SAVE" ->
                noVeto(revertAllUntitled(files), reason, TRUE, {}, dirty)
          [] env.confirmResult = "CANCEL" -> doVeto(files, reason, dirty)
          [] OTHER -> noVeto(files, reason, FALSE, {}, dirty)

\* the text file service's answer to the will-shutdown event
onBeforeShutdown(files, config, env, reason) ==
    LET dirty == getDirty(files)
    IN  IF dirty = {} THEN noVeto(files, reason, TRUE, {}, dirty)
        ELSE IF isHotExitEnabled(config, env) /\ doBackup(config, env, reason)
        THEN noVeto(files, reason, FALSE, dirty, dirty)
        ELSE confirmBeforeShutdown(files, env, reason)

\* lifecycleService.fireWillShutdown(event) with event.reason = reason
FireWillShutdown(reason) ==
    /\ shutdown = NoShutdown
    /\ LET out == onBeforeShutdown(textFiles, currentHotExitConfig, environment, reason)
       IN  /\ textFiles' = out.files
           /\ shutdown' = out.shutdown
    /\ UNCHANGED <<resolverVars, inputVars, monitorVars, currentHotExitConfig, environment>>

\* the set-up of a window and its one file model, up to the shutdown event
NextShutdown ==
    \/ \E h \in HotExitSettings : OnFilesConfigurationChange(h)
    \/ SetWorkspace
    \/ SetWindowCount
    \/ \E c \in ConfirmResults : SetConfirmResult(c)
    \/ Load(FileUri)
    \/ SetValue(FileUri, "foo")
    \/ \E r \in ShutdownReasons : FireWillShutdown(r)

SpecShutdown == InitPlatforms /\ [][NextShutdown]_vars

\* models come and go, their content changes, and the service is disposed
NextEmitter ==
    \/ Models
    \/ SaverRegistry(1)
    \/ \E uri \in SaveUris : Len(contentChanges) < MaxChanges /\ ChangeContent(uri)
    \/ DisposeService

SpecEmitter == Init /\ [][NextEmitter]_vars

NextEvents ==
    \/ Models
    \/ SaverRegistry(1)
    \/ Saving(MaxSaves)
    \/ \E u \in SaveUris : Len(contentChanges) < MaxChanges /\ ChangeContent(u)

SpecEvents == Init /\ [][NextEvents]_vars

\* ------------------------------------------------- resource editor input
\* A ResourceEditorInput (workbench) over one resource: it listens to the
\* service's state-change event to track its dirty state, and holds at most
\* one promise of a model reference.

\* the resource the input was constructed with
InputResource == DemoUri

\* ITextModelStateChangeEvent.type
StateChangeTypes == {"dirty", "reverted", "saving", "saved"}

\* the events onDidChangeState can deliver
StateChangeEvents == [type : StateChangeTypes, resource : Uris]

\* onDirtyStateChange(e) on an input whose dirty field holds `dirty`: the new
\* value of the field, and whether _onDidChangeDirty fired.  `!==` compares
\* the fresh boolean with whatever the field holds, undefined included.
onDirtyStateChange_anyResource(dirty, e) ==
    LET isDirtyNow == IF e.type = "dirty" THEN "true" ELSE "false"
    IN  [dirty |-> isDirtyNow, fired |-> isDirtyNow # dirty]

onDirtyStateChange(dirty, e) ==
    IF toString(e.resource) = toString(InputResource)
    THEN LET isDirtyNow == IF e.type = "dirty" THEN "true" ELSE "false"
         IN  [dirty |-> isDirtyNow, fired |-> isDirtyNow # dirty]
    ELSE [dirty |-> dirty, fired |-> FALSE]

\* ResourceEditorInput.isDirty()
inputIsDirty == inputDirty

\* the service fires a state change while the input's listener is bound
OnDidChangeState(e) ==
    /\ ~inputDisposed
    /\ LET r == onDirtyStateChange(inputDirty, e)
       IN  /\ inputDirty' = r.dirty
           /\ received' = Append(received,
                  [type |-> e.type, resource |-> e.resource,
                   before |-> inputDirty, after |-> r.dirty, fired |-> r.fired])
    /\ UNCHANGED <<resolverVars, fileVars, monitorVars,
                   modelReference, acquired, inputDisposed>>

\* this.modelReference = null
NoReference == 0

\* the kinds of model a reference can carry
ModelKinds == {"ResourceEditorModel", "other"}

\* a promise createModelReference returned: not settled, no callback yet
NewReference == [st |-> "pending", model |-> "none", released |-> 0, callbacks |-> <<>>]

\* the callback resolve() chains, run on a fulfilled promise
resolveCallback(a, held) ==
    IF a.model # "ResourceEditorModel"
    THEN [ref |-> [a EXCEPT !.released = @ + 1], held |-> NoReference]
    ELSE [ref |-> a, held |-> held]

\* the callback dispose() chains: ref.dispose()
disposeCallback(a, held) == [ref |-> [a EXCEPT !.released = @ + 1], held |-> held]

\* the callbacks of a promise, run in the order they were chained
RECURSIVE runCallbacks(_, _, _)
runCallbacks(cbs, a, held) ==
    IF cbs = <<>> THEN [ref |-> a, held |-> held]
    ELSE LET r == IF Head(cbs) = "resolve" THEN resolveCallback(a, held)
                  ELSE disposeCallback(a, held)
         IN  runCallbacks(Tail(cbs), r.ref, r.held)

\* promise.then(cb) or promise.done(cb): queued while pending, run at once
\* on a fulfilled promise, never run on a rejected one
chain(a, cb, held) ==
    LET queued == [a EXCEPT !.callbacks = Append(@, cb)]
    IN  IF a.st = "resolved" THEN runCallbacks(<<cb>>, queued, held)
        ELSE [ref |-> queued, held |-> held]

\* how many times resolve() was called so far
RECURSIVE resolveCalls(_)
resolveCalls(as) ==
    IF as = <<>> THEN 0
    ELSE Len(SelectSeq(Head(as).callbacks, LAMBDA c : c = "resolve"))
         + resolveCalls(Tail(as))

\* ResourceEditorInput.resolve()
ResolveInput ==
    /\ resolveCalls(acquired) < MaxResolves
    /\ LET fresh == modelReference = NoReference
           as    == IF fresh THEN Append(acquired, NewReference) ELSE acquired
           i     == IF fresh THEN Len(as) ELSE modelReference
           r     == chain(as[i], "resolve", i)
       IN  /\ acquired' = [as EXCEPT ![i] = r.ref]
           /\ modelReference' = r.held
    /\ UNCHANGED <<resolverVars, fileVars, monitorVars,
                   inputDirty, received, inputDisposed>>

\* the promise of createModelReference is fulfilled with a reference to a
\* model of the kind the resource's scheme yields (one kind per resource)
ReferenceResolves(i, kind) ==
    /\ acquired[i].st = "pending"
    /\ \A j \in 1..Len(acquired) : acquired[j].st = "resolved" => acquired[j].model = kind
    /\ LET r == runCallbacks(acquired[i].callbacks,
                             [acquired[i] EXCEPT !.st = "resolved", !.model = kind],
                             modelReference)
       IN  /\ acquired' = [acquired EXCEPT ![i] = r.ref]
           /\ modelReference' = r.held
    /\ UNCHANGED <<resolverVars, fileVars, monitorVars,
                   inputDirty, received, inputDisposed>>

\* the promise of createModelReference is rejected: no callback runs
ReferenceRejects(i) ==
    /\ acquired[i].st = "pending"
    /\ acquired' = [acquired EXCEPT ![i].st = "rejected"]
    /\ UNCHANGED <<resolverVars, fileVars, monitorVars,
                   inputDirty, received, modelReference, inputDisposed>>

\* ResourceEditorInput.dispose()
DisposeInput ==
    /\ ~inputDisposed
    /\ IF modelReference # NoReference
       THEN acquired' = [acquired EXCEPT ![modelReference] =
                            chain(@, "dispose", NoReference).ref]
       ELSE acquired' = acquired
    /\ modelReference' = NoReference
    /\ inputDisposed' = TRUE
    /\ UNCHANGED <<resolverVars, fileVars, monitorVars, inputDirty, received>>

\* an input receiving state changes until it is disposed
NextInputDirty ==
    \/ \E e \in StateChangeEvents :
          Len(received) < MaxInputEvents /\ OnDidChangeState(e)
    \/ DisposeInput

SpecInputDirty == Init /\ [][NextInputDirty]_vars

\* an input resolved, also by overlapping calls, until it is disposed, while
\* its references settle
NextInputReference ==
    \/ ~inputDisposed /\ ResolveInput
    \/ \E i \in 1..Len(acquired), kind \in ModelKinds : ReferenceResolves(i, kind)
    \/ \E i \in 1..Len(acquired) : ReferenceRejects(i)
    \/ DisposeInput

SpecInputReference == Init /\ [][NextInputReference]_vars

\* ------------------------------------------------- global mouse move monitor
\* A GlobalMouseMoveMonitor.  The merger and the two callbacks handed to a
\* startMonitoring call are named by the position of that call in `starts`;
\* 0 stands for null.

\* the monitor's fields and logs as one value
Monitor ==
    [mouseMoveEventMerger |-> mouseMoveEventMerger,
     mouseMoveCallback    |-> mouseMoveCallback,
     onStopCallback       |-> onStopCallback,
     hooks                |-> hooks,
     starts               |-> starts,
     stops                |-> stops,
     stopCallbacks        |-> stopCallbacks]

SetMonitor(m) ==
    /\ mouseMoveEventMerger' = m.mouseMoveEventMerger
    /\ mouseMoveCallback' = m.mouseMoveCallback
    /\ onStopCallback' = m.onStopCallback
    /\ hooks' = m.hooks
    /\ starts' = m.starts
    /\ stops' = m.stops
    /\ stopCallbacks' = m.stopCallbacks

\* the listeners one startMonitoring hooks: mouse move and mouse up on each
\* window of the same-origin chain and, under a different-origin ancestor,
\* mouseout, mouseover and mouseleave on the last window of the chain
newHooks(id, windowChain, hasDifferentOriginAncestor) ==
    {[start |-> id, event |-> ev, window |-> w] :
        ev \in {"mousemove", "mouseup"}, w \in 1..windowChain}
    \cup IF hasDifferentOriginAncestor
         THEN {[start |-> id, event |-> ev, window |-> windowChain] :
                  ev \in {"mouseout", "mouseover", "mouseleave"}}
         ELSE {}

isMonitoring(m) == m.mouseMoveEventMerger # 0

startMonitoring_rehooks(m, windowChain, hasDifferentOriginAncestor, inside) ==
    LET id == Len(m.starts) + 1
        hs == newHooks(id, windowChain, hasDifferentOriginAncestor)
    IN  [m EXCEPT !.mouseMoveEventMerger = id,
                  !.mouseMoveCallback = id,
                  !.onStopCallback = id,
                  !.hooks = @ \cup hs,
                  !.starts = Append(@, [took |-> TRUE, inside |-> inside,
                                        hooked |-> Cardinality(hs)])]

\* startMonitoring(merger, moveCallback, stopCallback); `inside` tells that
\* the call was issued by a stop callback
startMonitoring(m, windowChain, hasDifferentOriginAncestor, inside) ==
    LET id == Len(m.starts) + 1
        hs == newHooks(id, windowChain, hasDifferentOriginAncestor)
    IN  IF isMonitoring(m)
        THEN [m EXCEPT !.starts = Append(@, [took |-> FALSE, inside |-> inside,
                                             hooked |-> 0])]
        ELSE [m EXCEPT !.mouseMoveEventMerger = id,
                       !.mouseMoveCallback = id,
                       !.onStopCallback = id,
                       !.hooks = @ \cup hs,
                       !.starts = Append(@, [took |-> TRUE, inside |-> inside,
                                             hooked |-> Cardinality(hs)])]

\* the stop callback of start `id` runs: it sees the monitor as it is at
\* the call and may issue a new startMonitoring
onStopCallbackRuns(m, id, invokeStopCallback, by, restart, windowChain, hasDifferentOriginAncestor) ==
    LET noted == [m EXCEPT !.stopCallbacks = Append(@,
                      [of |-> id, invokeStopCallback |-> invokeStopCallback,
                       by |-> by, monitoring |-> isMonitoring(m),
                       hooks |-> Cardinality(m.hooks), restart |-> restart,
                       restarted |-> Len(m.starts) + 1])]
    IN  IF restart
        THEN startMonitoring(noted, windowChain, hasDifferentOriginAncestor, TRUE)
        ELSE noted

stopMonitoring_callbackFirst(m, invokeStopCallback, by, restart, windowChain, hasDifferentOriginAncestor) ==
    LET logged == [m EXCEPT !.stops = Append(@,
                      [invokeStopCallback |-> invokeStopCallback, by |-> by,
                       monitoring |-> isMonitoring(m)])]
        called == IF invokeStopCallback /\ m.onStopCallback # 0
                  THEN onStopCallbackRuns(logged, m.onStopCallback, invokeStopCallback,
                                          by, restart, windowChain, hasDifferentOriginAncestor)
                  ELSE logged
    IN  IF ~isMonitoring(m) THEN logged
        ELSE [called EXCEPT !.hooks = {},
                            !.mouseMoveEventMerger = 0,
                            !.mouseMoveCallback = 0,
                            !.onStopCallback = 0]

\* stopMonitoring(invokeStopCallback), called `by` a client, a hooked
\* listener or dispose
stopMonitoring(m, invokeStopCallback, by, restart, windowChain, hasDifferentOriginAncestor) ==
    LET logged == [m EXCEPT !.stops = Append(@,
                      [invokeStopCallback |-> invokeStopCallback, by |-> by,
                       monitoring |-> isMonitoring(m)])]
        reset  == [logged EXCEPT !.hooks = {},
                                 !.mouseMoveEventMerger = 0,
                                 !.mouseMoveCallback = 0,
                                 !.onStopCallback = 0]
    IN  IF ~isMonitoring(m) THEN logged
        ELSE IF invokeStopCallback /\ m.onStopCallback # 0
             THEN onStopCallbackRuns(reset, m.onStopCallback, invokeStopCallback,
                                     by, restart, windowChain, hasDifferentOriginAncestor)
             ELSE reset

\* a client calls startMonitoring
StartMonitoring(windowChain, hasDifferentOriginAncestor) ==
    /\ SetMonitor(startMonitoring(Monitor, windowChain, hasDifferentOriginAncestor, FALSE))
    /\ UNCHANGED <<resolverVars, fileVars, inputVars, hooksDisposed>>

\* a client calls stopMonitoring
StopMonitoring(invokeStopCallback, restart, windowChain, hasDifferentOriginAncestor) ==
    /\ SetMonitor(stopMonitoring(Monitor, invokeStopCallback, "client", restart,
                                 windowChain, hasDifferentOriginAncestor))
    /\ UNCHANGED <<resolverVars, fileVars, inputVars, hooksDisposed>>

\* a hooked listener other than the mouse move one gets its event: mouse up
\* and mouseleave stop the monitor, mouseout and mouseover do when the
\* target is the html element
HookFires(h, html, restart, windowChain, hasDifferentOriginAncestor) ==
    /\ h \in hooks
    /\ h.event # "mousemove"
    /\ IF h.event \in {"mouseout", "mouseover"} /\ ~html
       THEN UNCHANGED monitorVars
       ELSE /\ SetMonitor(stopMonitoring(Monitor, TRUE, h.event, restart,
                                         windowChain, hasDifferentOriginAncestor))
            /\ UNCHANGED hooksDisposed
    /\ UNCHANGED <<resolverVars, fileVars, inputVars>>

\* GlobalMouseMoveMonitor.dispose()
DisposeMonitor ==
    /\ SetMonitor([stopMonitoring(Monitor, FALSE, "dispose", FALSE, 1, FALSE)
                      EXCEPT !.hooks = {}])
    /\ hooksDisposed' = TRUE
    /\ UNCHANGED <<resolverVars, fileVars, inputVars>>

\* a monitor started and stopped by its client and by its own listeners,
\* until it is disposed
NextMonitor ==
    \/ \E w \in 1..MaxWindows, d \in BOOLEAN :
          /\ ~hooksDisposed
          /\ Len(starts) + Len(stops) < MaxMonitorCalls
          /\ StartMonitoring(w, d)
    \/ \E i, r \in BOOLEAN, w \in 1..MaxWindows, d \in BOOLEAN :
          /\ ~hooksDisposed
          /\ Len(starts) + Len(stops) < MaxMonitorCalls
          /\ StopMonitoring(i, r, w, d)
    \/ \E h \in hooks, html, r \in BOOLEAN, w \in 1..MaxWindows, d \in BOOLEAN :
          /\ Len(starts) + Len(stops) < MaxMonitorCalls
          /\ HookFires(h, html, r, w, d)
    \/ ~hooksDisposed /\ DisposeMonitor

SpecMonitor == Init /\ [][NextMonitor]_vars

\* ============================================================== properties

\* the reference count of key k: 0 when the table has no entry for it
countOf(refs, ents, k) == IF k \in DOMAIN refs THEN ents[k][refs[k]].counter ELSE 0

RECURSIVE destroyCalls(_)
destroyCalls(list) ==
    IF list = <<>> THEN 0 ELSE Head(list).destroyed + destroyCalls(Tail(list))

\* the slots of key k that took entry i
SlotsOn(k, i) == {s \in 1..Len(slots[k]) : slots[k][s].e = i}

\* C1: on every key, createReferencedObject runs in a step exactly when the
\* key's count goes 0 -> 1 and then once, destroyReferencedObject runs in a
\* step exactly when the count goes 1 -> 0 and then once, and no promise is
\* handed to destroyReferencedObject twice: one construction and one
\* destruction per generation, in whatever order the holders dispose.
C1_OncePerGeneration ==
    [][\A k \in Keys :
        LET c0 == countOf(references, entries, k)
            c1 == countOf(references', entries', k)
        IN  /\ Len(entries'[k]) - Len(entries[k]) = (IF c0 = 0 /\ c1 = 1 THEN 1 ELSE 0)
            /\ destroyCalls(entries'[k]) - destroyCalls(entries[k])
                  = (IF c0 = 1 /\ c1 = 0 THEN 1 ELSE 0)
            /\ \A i \in 1..Len(entries'[k]) : entries'[k][i].destroyed <= 1]_vars

\* two generations of one key ended, the first of them shared by two holders
C1_Witness ==
    \E k \in Keys :
        /\ Len(entries[k]) = 2
        /\ entries[k][1].destroyed = 1
        /\ entries[k][2].destroyed = 1
        /\ Cardinality(SlotsOn(k, 1)) = 2
        /\ k \notin DOMAIN references

FileKey == toString(FileUri)

\* the slot the last call on key k created, in the state after the call
NewestSlot(k) == slots'[k][Len(slots'[k])]

\* C2: a createModelReference for the file URI made while an earlier caller
\* still waits for the pending construction invokes no further loadOrCreate and
\* is given the promise the earlier caller waits for; and a caller that got
\* its reference holds the file model its promise completed with.
C2_SharedFileLoad ==
    [][/\ \A s \in 1..Len(slots[FileKey]) :
            ( /\ Len(slots'[FileKey]) = Len(slots[FileKey]) + 1
              /\ NewestSlot(FileKey).via = "service"
              /\ slots[FileKey][s].via = "service"
              /\ slots[FileKey][s].st = "waiting"
              /\ entries[FileKey][slots[FileKey][s].e].st = "pending" )
            => /\ NewestSlot(FileKey).e = slots[FileKey][s].e
               /\ Len(entries'[FileKey]) = Len(entries[FileKey])
       /\ \A s \in 1..Len(slots'[FileKey]) :
            (slots'[FileKey][s].via = "service" /\ slots'[FileKey][s].st = "holding")
            => /\ entries'[FileKey][slots'[FileKey][s].e].st = "resolved"
               /\ entries'[FileKey][slots'[FileKey][s].e].model = "TextFileEditorModel"]_vars

\* two callers of the file URI hold references to the model of the one load
C2_Witness ==
    /\ Len(entries[FileKey]) = 1
    /\ entries[FileKey][1].st = "resolved"
    /\ \E s, t \in 1..Len(slots[FileKey]) :
          /\ s # t
          /\ slots[FileKey][s].via = "service" /\ slots[FileKey][s].st = "holding"
          /\ slots[FileKey][t].via = "service" /\ slots[FileKey][t].st = "holding"
          /\ slots[FileKey][s].e = 1 /\ slots[FileKey][t].e = 1

\* C3: a dispose of a handle that was disposed before changes neither the
\* reference table nor any entry: no count moves, no entry is removed and no
\* model is destroyed, whoever else holds the key.
C3_RedisposeIsNoOp ==
    [][\A k \in Keys : \A s \in 1..Len(slots[k]) :
          (slots[k][s].st = "released" /\ DisposeReference(k, s))
          => UNCHANGED <<references, entries>>]_vars

\* the one released handle was disposed a second time while another holder of
\* the same entry still holds it, and the entry is live with count 1
C3_Witness ==
    /\ redisposed = 1
    /\ \E k \in Keys : \E s, t \in 1..Len(slots[k]) :
          /\ slots[k][s].st = "released"
          /\ slots[k][s].via = "service"
          /\ slots[k][t].st = "holding"
          /\ slots[k][t].e = slots[k][s].e
          /\ k \in DOMAIN references
          /\ references[k] = slots[k][s].e
          /\ entries[k][references[k]].counter = 1
          /\ entries[k][references[k]].destroyed = 0
          /\ \A k2 \in Keys : \A u \in 1..Len(slots[k2]) :
                slots[k2][u].st = "released" => (k2 = k /\ u = s)

\* the table is well formed: the entry of a key is one created for that key,
\* its count is at least 1, and no other entry of the key has a count
TableOk(refs, ents) ==
    \A k \in Keys :
        /\ k \in DOMAIN refs =>
              /\ refs[k] \in 1..Len(ents[k])
              /\ ents[k][refs[k]].counter >= 1
        /\ \A i \in 1..Len(ents[k]) :
              ents[k][i].counter # 0 => (k \in DOMAIN refs /\ refs[k] = i)

\* C4: the table is well formed before and after every step, and a step
\* removes the entry of a key exactly when it takes the entry's count from 1
\* to 0, which only a dispose does.
C4_TableInvariant ==
    [][/\ TableOk(references, entries)
       /\ TableOk(references', entries')
       /\ \A k \in Keys :
            /\ (k \in DOMAIN references /\ k \notin DOMAIN references')
               <=> ( /\ k \in DOMAIN references
                     /\ entries[k][references[k]].counter = 1
                     /\ entries'[k][references[k]].counter = 0 )
            /\ (k \in DOMAIN references /\ k \notin DOMAIN references')
               => \E s \in 1..Len(slots[k]) :
                     /\ slots[k][s].e = references[k]
                     /\ ~slots[k][s].disposed
                     /\ slots'[k][s].disposed]_vars

\* a key's entry went 2 -> 1 -> 0 and was removed while the other key's entry
\* stays in the table
C4_Witness ==
    \E k, k2 \in Keys :
        /\ k # k2
        /\ k \notin DOMAIN references
        /\ Len(entries[k]) = 1
        /\ entries[k][1].counter = 0
        /\ Cardinality(SlotsOn(k, 1)) = 2
        /\ k2 \in DOMAIN references
        /\ entries[k2][references[k2]].counter = 1

\* C5: a promise handed to destroyReferencedObject while pending keeps its
\* construction running and its disposal registered, and once it has
\* completed with a model that model has been disposed, once.
C5_EarlyReleaseStillDestroys ==
    \A k \in Keys : \A i \in 1..Len(entries[k]) :
        LET e == entries[k][i]
        IN  /\ (e.early /\ e.st = "pending") =>
                  /\ e.awaiting = 1
                  /\ e.origin = "loadOrCreate" \/ e.inflight # {}
            /\ (e.early /\ e.st = "resolved") =>
                  /\ e.awaiting = 0
                  /\ e.viaManager + e.viaDirect = 1

\* the last reference was released while the load was pending; the load then
\* completed and the file model was disposed
C5_Witness ==
    \E k \in Keys : \E i \in 1..Len(entries[k]) :
        /\ entries[k][i].early
        /\ entries[k][i].st = "resolved"
        /\ entries[k][i].counter = 0
        /\ entries[k][i].viaManager + entries[k][i].viaDirect = 1

\* the slots of key k that hold a reference on entry i not yet released
ActiveOn(k, i) ==
    {s \in SlotsOn(k, i) : slots[k][s].st \in {"waiting", "holding"}}

\* C6: a caller whose createModelReference failed has released its reference:
\* the count of every entry is the number of callers still waiting for it or
\* holding it, failed callers not among them, and a key none waits for or
\* holds has no entry.
C6_FailureReleases ==
    \A k \in Keys :
        /\ \A s \in 1..Len(slots[k]) :
              slots[k][s].st = "failed" => slots[k][s].disposed
        /\ \A i \in 1..Len(entries[k]) :
              entries[k][i].counter = Cardinality(ActiveOn(k, i))
        /\ (\A i \in 1..Len(entries[k]) : ActiveOn(k, i) = {}) => k \notin DOMAIN references

\* two callers of one failed construction were both told, and the key has no entry
C6_Witness ==
    \E k \in Keys :
        /\ Len(entries[k]) = 1
        /\ entries[k][1].st = "rejected"
        /\ Cardinality({s \in SlotsOn(k, 1) : slots[k][s].st = "failed"}) = 2
        /\ entries[k][1].counter = 0
        /\ k \notin DOMAIN references

\* C7: every caller of createModelReference whose promise failed is waiting
\* to be told or was told that promise's error, and was not given a
\* reference; a call made while the key has an entry is given that entry's
\* promise, failed or not; a call made while the key has no entry starts a
\* construction of its own.
C7_FailureDelivered ==
    [][\A k \in Keys :
        /\ \A s \in 1..Len(slots'[k]) :
              LET sl == slots'[k][s]
                  e  == entries'[k][sl.e]
              IN  sl.via = "service" =>
                    /\ e.st = "rejected" =>
                          \/ sl.st = "waiting"
                          \/ sl.st = "failed" /\ sl.err = e.err /\ sl.err # NoError
                    /\ sl.st = "failed" => e.st = "rejected"
        /\ Len(slots'[k]) = Len(slots[k]) + 1 =>
              IF k \in DOMAIN references
              THEN /\ NewestSlot(k).e = references[k]
                   /\ Len(entries'[k]) = Len(entries[k])
              ELSE /\ NewestSlot(k).e = Len(entries[k]) + 1
                   /\ Len(entries'[k]) = Len(entries[k]) + 1
                   /\ entries'[k][Len(entries'[k])].counter = 1]_vars

\* two callers were told the failure of the first construction of a key; a
\* later call started a second construction, which gave it a reference
C7_Witness ==
    \E k \in Keys :
        /\ Len(entries[k]) = 2
        /\ entries[k][1].st = "rejected"
        /\ Cardinality({s \in SlotsOn(k, 1) :
                          /\ slots[k][s].st = "failed"
                          /\ slots[k][s].err = entries[k][1].err}) = 2
        /\ entries[k][2].st = "resolved"
        /\ \E s \in SlotsOn(k, 2) : slots[k][s].st = "holding" /\ slots[k][s].via = "service"

DemoKey == toString(DemoUri)

\* the entries built by resolveTextModelContent, as <<key, index>>
Resolutions ==
    {ki \in Keys \X (1..MaxCalls + 1) :
        /\ ki[2] <= Len(entries[ki[1]])
        /\ entries[ki[1]][ki[2]].origin = "providers"}

\* the list is in order of registration, most recently registered first
MostRecentFirst(list) == \A i, j \in 1..Len(list) : i < j => list[i] > list[j]

\* every call of the resolution that returned, returned no content
AllEmpty(e) == \A j \in 1..Len(e.returned) : e.returned[j][2] = "empty"

\* C8: a resolution tries the providers of the URI's scheme, the most
\* recently registered first: after P2 returned no content P1 is called, and
\* the resolution fails with 'resource is not available' exactly when every
\* one of them was called and returned no content.
C8_MostRecentFirst ==
    /\ \A sc \in DOMAIN providers : MostRecentFirst(providers[sc])
    /\ \A ki \in Resolutions :
          LET e == entries[ki[1]][ki[2]]
          IN  /\ MostRecentFirst(e.snapshot)
              /\ \A j \in 1..Len(e.snapshot) :
                    registrations[e.snapshot[j]] = parse(ki[1]).scheme
              /\ Len(e.invoked) <= Len(e.snapshot)
              /\ e.invoked = SubSeq(e.snapshot, 1, Len(e.invoked))
              /\ (AllEmpty(e) /\ Len(e.returned) < Len(e.snapshot))
                    => Len(e.invoked) = Len(e.returned) + 1
              /\ (e.st = "rejected" /\ e.err = ErrNotAvailable)
                    <=> (AllEmpty(e) /\ Len(e.returned) = Len(e.snapshot))

\* P2, registered after P1, was called first and returned nothing, P1 was
\* called next and returned nothing, and the resolution failed
C8_Witness ==
    \E ki \in Resolutions :
        LET e == entries[ki[1]][ki[2]]
        IN  /\ e.snapshot = <<2, 1>>
            /\ e.returned = << <<2, "empty">>, <<1, "empty">> >>
            /\ e.st = "rejected"
            /\ e.err = ErrNotAvailable

\* C9: a resolution has at most one provider call in flight, it calls the
\* next provider of its list only after the call before it returned, and it
\* calls none after the first call that returned content.
C9_Sequential ==
    \A ki \in Resolutions :
        LET e == entries[ki[1]][ki[2]]
        IN  /\ Cardinality(e.inflight) <= 1
            /\ Len(e.invoked) = Len(e.returned) + Cardinality(e.inflight)
            /\ e.invoked = SubSeq(e.snapshot, 1, Len(e.invoked))
            /\ \A j \in 1..Len(e.returned) :
                  /\ e.returned[j][1] = e.invoked[j]
                  /\ e.returned[j][2] # "empty" => Len(e.invoked) = j

\* P2 returned content; P1, behind it in the list, was never called
C9_Witness ==
    \E ki \in Resolutions :
        LET e == entries[ki[1]][ki[2]]
        IN  /\ e.snapshot = <<2, 1>>
            /\ e.invoked = <<2>>
            /\ e.returned = << <<2, "content">> >>
            /\ e.st = "resolved"
            /\ e.inflight = {}

\* the caller of slot sl on key k was or will be told 'resource is not
\* available', and no ResourceEditorModel was built for it
FailsNotAvailable(ents, sl) ==
    /\ ents[sl.e].st = "rejected"
    /\ ents[sl.e].err = ErrNotAvailable
    /\ ents[sl.e].model = "none"
    /\ sl.st = "failed" => sl.err = ErrNotAvailable

\* the slots of the createModelReference calls for the demo URI
DemoCalls == {s \in 1..Len(slots[DemoKey]) : slots[DemoKey][s].via = "service"}

\* slot s is of the call that put its entry into the table
StartedResolution(s) == \A t \in SlotsOn(DemoKey, slots[DemoKey][s].e) : s <= t

\* C10 as stated: a createModelReference for the demo URI made while no
\* provider is registered for the scheme fails with 'resource is not
\* available', and so does one whose providers all returned no content;
\* no ResourceEditorModel is built for either.
C10_FailsWithoutProvider ==
    \A s \in DemoCalls :
        LET sl == slots[DemoKey][s]
            e  == entries[DemoKey][sl.e]
        IN  /\ sl.unprovided =>
                 /\ sl.st \in {"waiting", "failed"}
                 /\ sl.st = "failed" => sl.err = ErrNotAvailable
            /\ (AllEmpty(e) /\ Len(e.returned) = Len(e.snapshot))
                 => FailsNotAvailable(entries[DemoKey], sl)

\* C10 amended: the same of a call made while the key has no entry in the
\* reference table, that is, of a call that starts a resolution.
C10_FailsWithoutProviderWhenFresh ==
    \A s \in DemoCalls :
        LET sl == slots[DemoKey][s]
            e  == entries[DemoKey][sl.e]
        IN  /\ (sl.unprovided /\ StartedResolution(s))
                 => FailsNotAvailable(entries[DemoKey], sl)
            /\ (AllEmpty(e) /\ Len(e.returned) = Len(e.snapshot))
                 => FailsNotAvailable(entries[DemoKey], sl)

\* a call made with no provider registered was told 'resource is not
\* available'; so was a later call whose two providers returned nothing
C10_Witness ==
    /\ Len(entries[DemoKey]) = 2
    /\ entries[DemoKey][1].snapshot = <<>>
    /\ entries[DemoKey][2].snapshot = <<2, 1>>
    /\ \A i \in 1..2 :
          /\ entries[DemoKey][i].model = "none"
          /\ \E s \in SlotsOn(DemoKey, i) :
                /\ slots[DemoKey][s].via = "service"
                /\ slots[DemoKey][s].unprovided <=> i = 1
                /\ slots[DemoKey][s].st = "failed"
                /\ slots[DemoKey][s].err = ErrNotAvailable

\* the list without the provider
Without(list, provider) == SelectSeq(list, LAMBDA x : x # provider)

Registering == Len(saverRegistrations') = Len(saverRegistrations) + 1
Registered == saverRegistrations'[Len(saverRegistrations')]

\* the latest save call, in a step that made one
SaveCalled == Len(saves') = Len(saves) + 1
LatestSave == saves'[Len(saves')]

\* C12: a registerTextModelSaver call for a scheme that has a saver throws
\* and leaves the saver map as it was; a save calls the saver the map holds
\* for the scheme, which is a saver whose registration succeeded.
C12_SaverExclusive ==
    [][/\ (Registering /\ has(modelSaver, Registered.scheme))
            => Registered.threw /\ modelSaver' = modelSaver
       /\ (Registering /\ ~has(modelSaver, Registered.scheme))
            => /\ ~Registered.threw
               /\ modelSaver'[Registered.scheme] = Len(saverRegistrations')
               /\ \A sc \in DOMAIN modelSaver : modelSaver'[sc] = modelSaver[sc]
       /\ (SaveCalled /\ LatestSave.st = "running")
            => /\ LatestSave.saver = modelSaver[LatestSave.resource.scheme]
               /\ ~saverRegistrations[LatestSave.saver].threw
               /\ saverRegistrations[LatestSave.saver].scheme = LatestSave.resource.scheme]_vars

\* the second registration for scheme demo threw, the first saver is still
\* in the map and a save of the demo resource called it
C12_Witness ==
    /\ Len(saverRegistrations) = 2
    /\ \A i \in 1..2 : saverRegistrations[i].scheme = SchemaDemo
    /\ saverRegistrations[2].threw
    /\ has(modelSaver, SchemaDemo)
    /\ modelSaver[SchemaDemo] = 1
    /\ \E j \in 1..Len(saves) : saves[j].saver = 1 /\ saves[j].resource = DemoUri

\* the save call failed on one of its two preconditions
Unmet(call) == call.err \in {MISSING_MODEL, MISSING_SAVER}

\* C13: save fails with MISSING_MODEL when the model service has no model for
\* the resource, and with MISSING_SAVER when it has one but the scheme has no
\* saver; such a call fires no state event and calls no saver, then or later.
C13_SavePreconditions ==
    [][/\ SaveCalled =>
            /\ LatestSave.resource \notin modelServiceModels
                  => LatestSave.st = "failed" /\ LatestSave.err = MISSING_MODEL
            /\ ( /\ LatestSave.resource \in modelServiceModels
                 /\ ~has(modelSaver, LatestSave.resource.scheme) )
                  => LatestSave.st = "failed" /\ LatestSave.err = MISSING_SAVER
            /\ Unmet(LatestSave)
                  => /\ stateEvents' = stateEvents
                     /\ LatestSave.saver = 0
       /\ \A j \in 1..Len(saves) : Unmet(saves[j]) => saves'[j] = saves[j]]_vars

\* one save failed for want of a model, one for want of a saver, and no
\* state event was ever fired
C13_Witness ==
    /\ \E j \in 1..Len(saves) : saves[j].err = MISSING_MODEL
    /\ \E j \in 1..Len(saves) : saves[j].err = MISSING_SAVER
    /\ stateEvents = <<>>

\* the save calls that reached the saver
Started == {j \in 1..Len(saves) : saves[j].saving > 0}

\* the 'saved' event of save call j is in stateEvents, after its 'saving' event
SavedFired(j) ==
    /\ saves[j].saving < saves[j].saved
    /\ saves[j].saved <= Len(stateEvents)
    /\ stateEvents[saves[j].saving] = StateEvent("saving", saves[j].resource)
    /\ stateEvents[saves[j].saved] = StateEvent("saved", saves[j].resource)

\* C14 as stated: a save that went through fired 'saving' and then 'saved'
\* for its resource, and no state event for that resource lies between the two.
C14_SavingThenSaved ==
    \A j \in Started :
        saves[j].st = "done"
            => /\ SavedFired(j)
               /\ \A i \in (saves[j].saving + 1)..(saves[j].saved - 1) :
                     stateEvents[i].resource # saves[j].resource

\* C15 as stated: once the saver's call of a save has finished, whichever way,
\* the 'saved' event of that save has been fired.
C15_SavingEndsSaved ==
    \A j \in Started : saves[j].st # "running" => SavedFired(j)

\* C15 amended: once the saver's call has completed successfully the 'saved'
\* event of that save has been fired; a save whose saver failed fires none, so
\* the 'saved' events are as many as the saves that completed.
C15_SavingEndsSavedOnSuccess ==
    /\ \A j \in Started :
          /\ saves[j].st = "done" => SavedFired(j)
          /\ saves[j].st = "failed" => saves[j].saved = 0 /\ saves[j].err = ErrSaver
    /\ Cardinality({i \in 1..Len(stateEvents) : stateEvents[i].type = "saved"})
          = Cardinality({j \in Started : saves[j].st = "done"})

\* one save of the demo resource completed and fired 'saving' and 'saved',
\* another one failed in the saver and fired 'saving' only
C15_Witness ==
    /\ \E j \in Started : saves[j].st = "done" /\ saves[j].resource = DemoUri
    /\ \E j \in Started : saves[j].st = "failed" /\ saves[j].resource = DemoUri
    /\ Cardinality({i \in 1..Len(stateEvents) : stateEvents[i].type = "saving"}) = 2
    /\ Cardinality({i \in 1..Len(stateEvents) : stateEvents[i].type = "saved"}) = 1

\* the latest content change, in a step that made one
Changing == Len(contentChanges') = Len(contentChanges) + 1
Changed == contentChanges'[Len(contentChanges')]

\* the event fired latest, in a step that fired one
Firing == Len(stateEvents') = Len(stateEvents) + 1
Fired == stateEvents'[Len(stateEvents')]

C17_DirtyNotDeduplicated ==
    [][( /\ Changing
         /\ has(modelSaver, Changed.scheme)
         /\ stateEvents # <<>>
         /\ stateEvents[Len(stateEvents)] = StateEvent("dirty", Changed) )
          => /\ Firing
             /\ Fired = StateEvent("dirty", Changed)]_vars

\* two changes of the demo model in a row, two 'dirty' events in a row
C17_Witness ==
    /\ contentChanges = <<DemoUri, DemoUri>>
    /\ stateEvents = <<StateEvent("dirty", DemoUri), StateEvent("dirty", DemoUri)>>

\* C18: supportsSave answers whether the saver map holds a saver for the
\* resource's scheme: it is true of a scheme from a registration that
\* succeeded until a handle for that scheme is disposed, false from then on
\* until the next registration, and a call changes nothing and fires no event.
C18_SupportsSave ==
    [][/\ supported' # supported
            => /\ supported'.result = has(modelSaver, supported'.resource.scheme)
               /\ UNCHANGED <<emitterVars, otherVars, collectionVars, modelServiceModels, modelListener, modelSaver,
                              saverRegistrations, saves, stateEvents, contentChanges>>
       /\ \A u \in SaveUris :
            /\ (Registering /\ ~Registered.threw /\ Registered.scheme = u.scheme)
                  => supportsSave(modelSaver', u)
            /\ \A i \in 1..Len(saverRegistrations) :
                  (DisposeTextModelSaver(i) /\ saverRegistrations[i].scheme = u.scheme)
                      => ~supportsSave(modelSaver', u)
            /\ supportsSave(modelSaver', u) # supportsSave(modelSaver, u)
                  => \/ Registering /\ Registered.scheme = u.scheme
                     \/ \E i \in 1..Len(saverRegistrations) :
                           DisposeTextModelSaver(i) /\ saverRegistrations[i].scheme = u.scheme]_vars

\* supportsSave of the demo resource was asked after the one saver of scheme
\* demo was registered and its handle disposed, and answered false, while the
\* saver of scheme file is still registered
C18_Witness ==
    /\ Len(saverRegistrations) = 2
    /\ saverRegistrations[1].scheme = SchemaDemo
    /\ saverRegistrations[2].scheme = SchemaFile
    /\ has(modelSaver, SchemaFile)
    /\ supported = [resource |-> DemoUri, result |-> FALSE, registrations |-> 2]

UntitledKey == toString(UntitledUri)
InMemoryKey == toString(InMemoryUri)

\* a createModelReference call for key k was made in this step
CalledOn(k) == Len(slots'[k]) = Len(slots[k]) + 1

\* the handle of a slot of key k was disposed in this step
DisposedOn(k) ==
    \E s \in 1..Len(slots[k]) :
        /\ Len(slots'[k]) = Len(slots[k])
        /\ slots[k][s].st = "holding"
        /\ slots'[k][s].st = "released"

\* the step left the collection alone, and every caller but those of key k
CollectionUntouched(k) ==
    /\ UNCHANGED <<references, entries, providers, registrations>>
    /\ \A k2 \in AllKeys \ {k} : slots'[k2] = slots[k2]

\* C19: a createModelReference call for the untitled URI goes to the untitled
\* editor service and not to the collection; the call, the completion of
\* loadOrCreate and the dispose of the reference leave the reference table
\* and its entries as they are, and the dispose leaves every other holder of
\* the untitled model holding it.
C19_UntitledImmortal ==
    [][/\ CalledOn(UntitledKey)
            => /\ NewestSlot(UntitledKey).via = "untitled"
               /\ NewestSlot(UntitledKey).e = 0
               /\ CollectionUntouched(UntitledKey)
       /\ slots'[UntitledKey] # slots[UntitledKey] => CollectionUntouched(UntitledKey)
       /\ DisposedOn(UntitledKey)
            => \A s \in 1..Len(slots[UntitledKey]) :
                  \/ slots'[UntitledKey][s] = slots[UntitledKey][s]
                  \/ /\ slots[UntitledKey][s].st = "holding"
                     /\ slots'[UntitledKey][s] = [slots[UntitledKey][s] EXCEPT !.st = "released"]
       /\ entries'[UntitledKey] = <<>>]_vars

\* an untitled reference was disposed and another one is still held, while
\* the reference table holds the file key with its count of one
C19_Witness ==
    /\ \E s \in 1..Len(slots[UntitledKey]) : slots[UntitledKey][s].st = "released"
    /\ \E s \in 1..Len(slots[UntitledKey]) : slots[UntitledKey][s].st = "holding"
    /\ DOMAIN references = {FileKey}
    /\ countOf(references, entries, FileKey) = 1
    /\ providersOf(providers, UNTITLED_SCHEMA) # <<>>

\* C20: a createModelReference call for the inmemory URI fails with 'Cant
\* resolve inmemory resource' when the model service has no model for the URI,
\* and returns a reference otherwise; the call and the dispose of that
\* reference leave the reference table, its entries and the providers alone,
\* and no resolution is ever started for the key.
C20_InMemoryImmortal ==
    [][/\ CalledOn(InMemoryKey)
            => /\ NewestSlot(InMemoryKey).via = "inmemory"
               /\ NewestSlot(InMemoryKey).e = 0
               /\ InMemoryUri \notin modelServiceModels
                     => /\ NewestSlot(InMemoryKey).st = "failed"
                        /\ NewestSlot(InMemoryKey).err = ErrInMemory
               /\ InMemoryUri \in modelServiceModels
                     => NewestSlot(InMemoryKey).st = "holding"
       /\ slots'[InMemoryKey] # slots[InMemoryKey] => CollectionUntouched(InMemoryKey)
       /\ DisposedOn(InMemoryKey) => UNCHANGED modelServiceModels
       /\ entries'[InMemoryKey] = <<>>]_vars

\* one inmemory call failed for want of a model, another returned a reference
\* that was then disposed; a provider is registered for the inmemory scheme
\* and the reference table holds the file key only
C20_Witness ==
    /\ \E s \in 1..Len(slots[InMemoryKey]) :
          slots[InMemoryKey][s].st = "failed" /\ slots[InMemoryKey][s].err = ErrInMemory
    /\ \E s \in 1..Len(slots[InMemoryKey]) : slots[InMemoryKey][s].st = "released"
    /\ InMemoryUri \in modelServiceModels
    /\ DOMAIN references = {FileKey}
    /\ providersOf(providers, SchemaInMemory) # <<>>
\* --------------------------------------------------------------- C21
\* the state events fired since the emitter was disposed
SinceDisposal == SubSeq(stateEvents, disposal.events + 1, Len(stateEvents))

ProviderInvoked(e) == e.invoked # <<>> \/ e.inflight # {} \/ e.queue # <<>>

\* C22: a model constructed for a file URI is built by loadOrCreate and no
\* content provider is asked for it, also when providers are registered for
\* scheme 'file'; a model constructed for any other scheme is built from the
\* content providers and loadOrCreate is not called for it.
C22_FileBypassesProviders ==
    \A k \in AllKeys : \A i \in 1..Len(entries[k]) :
        LET e == entries[k][i]
        IN  IF parse(k).scheme = SchemaFile
            THEN /\ e.origin = "loadOrCreate"
                 /\ ~ProviderInvoked(e)
                 /\ e.snapshot = <<>>
                 /\ e.model # "ResourceEditorModel"
            ELSE /\ e.origin = "providers"
                 /\ e.model # "TextFileEditorModel"

\* a file model was built by a call made while a provider was registered for
\* scheme 'file', and a model of another scheme was built from a provider
C22_Witness ==
    /\ \E s \in 1..Len(slots[FileKey]) :
          /\ \A t \in SlotsOn(FileKey, slots[FileKey][s].e) : s <= t
          /\ ~slots[FileKey][s].unprovided
          /\ entries[FileKey][slots[FileKey][s].e].model = "TextFileEditorModel"
    /\ \E i \in 1..Len(entries[DemoKey]) :
          /\ entries[DemoKey][i].invoked # <<>>
          /\ entries[DemoKey][i].model = "ResourceEditorModel"

\* --------------------------------------------------------------- C23
\* the will-shutdown event was handled with exactly the file model dirty
\* and CANCEL as the answer of the confirm dialog
DirtyAndCancel ==
    /\ shutdown # NoShutdown
    /\ shutdown.dirty = {FileUri}
    /\ environment.confirmResult = "CANCEL"

HotExitNotApplicable ==
    /\ \/ shutdown.reason = "LOAD"
       \/ shutdown.reason = "CLOSE" /\ (environment.isMacintosh \/ environment.windowCount > 1)
    /\ ~(currentHotExitConfig = ON_EXIT_AND_WINDOW_CLOSE /\ environment.workspace)

C29_DisposalRoute ==
    \A k \in AllKeys : \A i \in 1..Len(entries[k]) :
        LET e == entries[k][i]
        IN  /\ e.model = "TextFileEditorModel" => e.viaDirect = 0
            /\ e.model # "TextFileEditorModel" => e.viaManager = 0
            /\ e.st = "resolved" /\ e.destroyed > 0 => e.viaManager + e.viaDirect = 1
            /\ e.destroyed = 0 => e.viaManager + e.viaDirect = 0

\* a file model went through the manager and a provider's model was
\* disposed directly
C29_Witness ==
    /\ \E i \in 1..Len(entries[FileKey]) :
          /\ entries[FileKey][i].model = "TextFileEditorModel"
          /\ entries[FileKey][i].destroyed = 1
          /\ entries[FileKey][i].viaManager = 1
    /\ \E i \in 1..Len(entries[DemoKey]) :
          /\ entries[DemoKey][i].model = "ResourceEditorModel"
          /\ entries[DemoKey][i].destroyed = 1
          /\ entries[DemoKey][i].viaDirect = 1

\* --------------------------------------------------------------- C30
\* the resolutions that are in flight
InFlight == {ki \in Resolutions : entries[ki[1]][ki[2]].st = "pending"}

\* the step registers or unregisters a provider
RegistryStep == providers' # providers \/ registrations' # registrations

\* C30: a provider registered or unregistered while a resolution is in flight
\* leaves the resolution as it is; the resolution goes on calling the
\* providers of the list it started with, in that list's order, and no
\* other; and the registry takes the registration at its front, or loses
\* exactly the unregistered provider.
C30_InFlightUndisturbed ==
    [][\A ki \in InFlight :
          LET k == ki[1]
              e == entries[k][ki[2]]
              f == entries'[k][ki[2]]
              sc == parse(k).scheme
          IN  /\ f.snapshot = e.snapshot
              /\ Len(f.invoked) <= Len(e.snapshot)
              /\ \A j \in 1..Len(f.invoked) :
                    j <= Len(e.snapshot) /\ f.invoked[j] = e.snapshot[j]
              /\ Len(f.invoked) >= Len(e.invoked)
              /\ RegistryStep =>
                    /\ f = e
                    /\ registrations' # registrations =>
                          providersOf(providers', registrations'[Len(registrations')])
                             = <<Len(registrations')>>
                                  \o providersOf(providers, registrations'[Len(registrations')])
                    /\ registrations' = registrations =>
                          \E pr \in 1..Len(registrations) :
                              \A s \in ProviderSchemes :
                                  providersOf(providers', s) = Without(providersOf(providers, s), pr)]_vars

\* provider 1 is still being asked by a resolution that started when it was
\* the only one, while the registry has lost it and holds provider 2
C30_Witness ==
    \E ki \in InFlight :
        LET e == entries[ki[1]][ki[2]]
        IN  /\ e.snapshot = <<1>>
            /\ e.inflight = {1}
            /\ providersOf(providers, parse(ki[1]).scheme) = <<2>>

\* --------------------------------------------------------------- C31
\* C31: disposing the handle of a registerTextModelSaver call removes only
\* the saver that call registered: when the map holds a saver that a later
\* call registered for the same scheme, the dispose leaves the map as it is.
C31_HandleRemovesOwnSaver ==
    [][\A i \in 1..Len(saverRegistrations) :
          ( /\ DisposeTextModelSaver(i)
            /\ has(modelSaver, saverRegistrations[i].scheme)
            /\ modelSaver[saverRegistrations[i].scheme] # i )
          => modelSaver' = modelSaver]_vars

\* --------------------------------------------------------------- C32
\* C32: every 'saved' event is the one of a save whose saveTextContent call
\* completed successfully, fired after that save's 'saving' event and for
\* its resource, one event per such save; a save whose saver has not
\* finished or has failed has fired no 'saved' event, and the failed one
\* ends with the saver's error.
C32_SavedOnlyOnSuccess ==
    /\ \A i \in 1..Len(stateEvents) :
          stateEvents[i].type = "saved"
            => \E j \in Started :
                  /\ saves[j].st = "done"
                  /\ saves[j].saved = i
                  /\ saves[j].saving < i
                  /\ saves[j].resource = stateEvents[i].resource
    /\ \A j \in Started :
          /\ saves[j].st = "running" => saves[j].saved = 0
          /\ saves[j].st = "failed" => saves[j].saved = 0 /\ saves[j].err = ErrSaver
    /\ \A j, l \in Started :
          (j # l /\ saves[j].st = "done" /\ saves[l].st = "done")
             => saves[j].saved # saves[l].saved

\* the first save failed in the saver, the second one went through: two
\* 'saving' events and the one 'saved' event of the second save
C32_Witness ==
    /\ Len(saves) = 2
    /\ saves[1].st = "failed" /\ saves[1].err = ErrSaver /\ saves[1].saving = 1
    /\ saves[2].st = "done" /\ saves[2].saving = 2 /\ saves[2].saved = 3
    /\ Len(stateEvents) = 3
    /\ saves[1].resource = saves[2].resource

\* the state events the input received for its own resource
OwnEvents ==
    {i \in 1..Len(received) : toString(received[i].resource) = toString(InputResource)}

\* C33: isDirty() is true exactly when the most recent state event received
\* for the input's own resource has type 'dirty'; a state event for any
\* other resource leaves the dirty state as it was and fires no
\* dirty-change event.
C33_DirtyFollowsOwnEvents ==
    /\ (inputIsDirty = "true") <=>
          \E i \in OwnEvents :
             /\ received[i].type = "dirty"
             /\ \A j \in OwnEvents : j <= i
    /\ \A i \in 1..Len(received) :
          /\ received[i].before = IF i = 1 THEN "undefined" ELSE received[i - 1].after
          /\ i \notin OwnEvents =>
                /\ received[i].after = received[i].before
                /\ ~received[i].fired
    /\ received # <<>> => inputDirty = received[Len(received)].after

\* a dirty event for the input's resource followed by a 'saved' event for
\* another resource: the input is still dirty
C33_Witness ==
    /\ Len(received) = 2
    /\ received[1].type = "dirty" /\ received[1].resource = InputResource
    /\ received[2].type = "saved" /\ received[2].resource = FileUri
    /\ inputIsDirty = "true"

\* C34: the dirty-change event fires only when the value isDirty() reports
\* changes between dirty and not dirty; a first 'saving' or 'saved' event on
\* an input that was never dirty fires nothing.
C34_FiresOnlyOnChange ==
    \A i \in 1..Len(received) :
       received[i].fired => ((received[i].before = "true") # (received[i].after = "true"))

\* C35: the input acquires at most one model reference however often
\* resolve() is called, and every reference it acquired is released exactly
\* once, by dispose() or by resolve() when the model is not a
\* ResourceEditorModel: never twice, and never left unreleased after dispose().
C35_OneReferenceReleasedOnce ==
    /\ Len(acquired) <= 1
    /\ \A i \in 1..Len(acquired) :
          /\ acquired[i].released <= 1
          /\ (acquired[i].released > 0 /\ ~inputDisposed) => acquired[i].model = "other"
          /\ (inputDisposed /\ acquired[i].st = "resolved") => acquired[i].released = 1

\* a client's startMonitoring call is made in this step
ClientStarts ==
    /\ Len(starts') = Len(starts) + 1
    /\ ~starts'[Len(starts')].inside

\* a stopMonitoring call is made in this step
StopCalled == Len(stops') = Len(stops) + 1

\* C36: startMonitoring called while the monitor is monitoring is a no-op:
\* merger, move callback and stop callback of the first start stay and no
\* listener is hooked; stopMonitoring called while not monitoring is a
\* no-op too and invokes no callback.
C36_NoOpCalls ==
    [][/\ (ClientStarts /\ isMonitoring(Monitor)) =>
             /\ UNCHANGED <<mouseMoveEventMerger, mouseMoveCallback, onStopCallback,
                            hooks, hooksDisposed, stops, stopCallbacks>>
             /\ ~starts'[Len(starts')].took
             /\ starts'[Len(starts')].hooked = 0
       /\ (StopCalled /\ ~isMonitoring(Monitor)) =>
             UNCHANGED <<mouseMoveEventMerger, mouseMoveCallback, onStopCallback,
                         hooks, starts, stopCallbacks>>]_vars

\* a stop that found nothing to stop, a start, and a second start that was
\* ignored: the first start is still in effect
C36_Witness ==
    /\ Len(stops) = 1 /\ ~stops[1].monitoring /\ stops[1].invokeStopCallback
    /\ Len(starts) = 2
    /\ starts[1].took /\ ~starts[2].took /\ ~starts[2].inside
    /\ mouseMoveEventMerger = 1 /\ mouseMoveCallback = 1 /\ onStopCallback = 1
    /\ Cardinality(hooks) = starts[1].hooked
    /\ stopCallbacks = <<>>

\* C37: the stop callback of a successful startMonitoring is invoked at most
\* once, only by a stop asked to invoke it, never by dispose, and only after
\* the monitor was reset: at the call isMonitoring() is false and no hook is
\* left, and a startMonitoring issued by the callback takes effect.
C37_StopCallbackAfterReset ==
    \A k \in 1..Len(stopCallbacks) :
       LET c == stopCallbacks[k]
       IN  /\ c.of \in 1..Len(starts)
           /\ starts[c.of].took
           /\ c.invokeStopCallback
           /\ c.by # "dispose"
           /\ ~c.monitoring
           /\ c.hooks = 0
           /\ c.restart =>
                 /\ c.restarted \in 1..Len(starts)
                 /\ starts[c.restarted].took
                 /\ starts[c.restarted].inside
           /\ \A l \in 1..Len(stopCallbacks) : l # k => stopCallbacks[l].of # c.of

\* a mouse up stopped the first start, whose stop callback started the
\* monitor again; dispose then stopped the second start without a callback
C37_Witness ==
    /\ Len(stopCallbacks) = 1
    /\ stopCallbacks[1].of = 1
    /\ stopCallbacks[1].by = "mouseup"
    /\ stopCallbacks[1].restart
    /\ Len(starts) = 2 /\ starts[2].took /\ starts[2].inside
    /\ Len(stops) = 2 /\ stops[2].by = "dispose" /\ stops[2].monitoring
    /\ hooksDisposed /\ ~isMonitoring(Monitor) /\ hooks = {}

====
